---------------------------- MODULE Spec2Model ----------------------------
(***************************************************************************)
(* A model of the monopoly-gym game engine: Board / Field hierarchy        *)
(* (engine/fields.py), card decks (engine/cards.py), Player and GameRound  *)
(* (engine/game.py), the rule-based agent (engine/agent.py,                *)
(* engine/agent_funcs.py) and the hybrid agent with its action masks       *)
(* (model/hybrid_agent.py, model/masking.py).                              *)
(*                                                                         *)
(* Money is kept in half dollars (Unit per dollar): the hybrid agent asks  *)
(* 0.75 * price and the rule-based agent offers 1.25 * price, which is not *)
(* a whole dollar for a price of 150 or 350.  D(x) turns dollars to units. *)
(***************************************************************************)
EXTENDS Integers, Sequences, FiniteSets, TLC

Unit == 2
D(x) == x * Unit

NPlayers == 4
Players == 0 .. (NPlayers - 1)
HybridId == 1
NFields == 40
Fields == 0 .. (NFields - 1)
None == -1
StartMoney == 1500

(***************************************************************************)
(* The board: fields.csv joined with properties.csv on id.  The two tables *)
(* are the standard board (the cards name Boardwalk = 39, Illinois         *)
(* Avenue = 24, St. Charles Place = 11, Reading Railroad = 5; the masks    *)
(* count 28 purchasable fields of which 22 are real estates).              *)
(***************************************************************************)
field_type ==
    [f \in Fields |->
        CASE f = 0 -> "start"
          [] f \in {2, 17, 33} -> "community_chest"
          [] f \in {7, 22, 36} -> "chance"
          [] f = 4 -> "income_tax"
          [] f = 38 -> "luxury_tax"
          [] f \in {5, 15, 25, 35} -> "train"
          [] f \in {12, 28} -> "utility"
          [] f = 10 -> "visit_jail"
          [] f = 20 -> "basic"
          [] f = 30 -> "go_to_jail"
          [] OTHER -> "property"]

RealEstates == {f \in Fields : field_type[f] = "property"}
Trains == {f \in Fields : field_type[f] = "train"}
Utilities == {f \in Fields : field_type[f] = "utility"}
Purchasables == RealEstates \cup Trains \cup Utilities

price ==
    [f \in Purchasables |->
        CASE f \in {1, 3} -> 60
          [] f \in {6, 8} -> 100
          [] f = 9 -> 120
          [] f \in {11, 13} -> 140
          [] f = 14 -> 160
          [] f \in {16, 18} -> 180
          [] f = 19 -> 200
          [] f \in {21, 23} -> 220
          [] f = 24 -> 240
          [] f \in {26, 27} -> 260
          [] f = 29 -> 280
          [] f \in {31, 32} -> 300
          [] f = 34 -> 320
          [] f = 37 -> 350
          [] f = 39 -> 400
          [] f \in Trains -> 200
          [] f \in Utilities -> 150]

color ==
    [f \in RealEstates |->
        CASE f \in {1, 3} -> "brown"
          [] f \in {6, 8, 9} -> "light_blue"
          [] f \in {11, 13, 14} -> "pink"
          [] f \in {16, 18, 19} -> "orange"
          [] f \in {21, 23, 24} -> "red"
          [] f \in {26, 27, 29} -> "yellow"
          [] f \in {31, 32, 34} -> "green"
          [] f \in {37, 39} -> "blue"]

house_cost ==
    [f \in RealEstates |->
        CASE f < 10 -> 50
          [] f < 20 -> 100
          [] f < 30 -> 150
          [] OTHER -> 200]

\* Property.__init__: hotel_cost = 4 * house_cost + house_cost
hotel_cost == [f \in RealEstates |-> 4 * house_cost[f] + house_cost[f]]

\* rent_0 .. rent_4, rent_hotel, indexed by build level + 1
fees ==
    [f \in RealEstates |->
        CASE f = 1 -> <<2, 10, 30, 90, 160, 250>>
          [] f = 3 -> <<4, 20, 60, 180, 320, 450>>
          [] f \in {6, 8} -> <<6, 30, 90, 270, 400, 550>>
          [] f = 9 -> <<8, 40, 100, 300, 450, 600>>
          [] f \in {11, 13} -> <<10, 50, 150, 450, 625, 750>>
          [] f = 14 -> <<12, 60, 180, 500, 700, 900>>
          [] f \in {16, 18} -> <<14, 70, 200, 550, 750, 950>>
          [] f = 19 -> <<16, 80, 220, 600, 800, 1000>>
          [] f \in {21, 23} -> <<18, 90, 250, 700, 875, 1050>>
          [] f = 24 -> <<20, 100, 300, 750, 925, 1100>>
          [] f \in {26, 27} -> <<22, 110, 330, 800, 975, 1150>>
          [] f = 29 -> <<24, 120, 360, 850, 1025, 1200>>
          [] f \in {31, 32} -> <<26, 130, 390, 900, 1100, 1275>>
          [] f = 34 -> <<28, 150, 450, 1000, 1200, 1400>>
          [] f = 37 -> <<35, 175, 500, 1100, 1300, 1500>>
          [] f = 39 -> <<50, 200, 600, 1400, 1700, 2000>>]

\* Board.__init__: prison_id is the id of the VisitJail field
prison_id == CHOOSE f \in Fields : field_type[f] = "visit_jail"

\* Board.get_property_group_ids: the ids sharing the field's color, None
\* (here the empty set marks it) for a field without a color
get_property_group_ids(f) ==
    IF f \in RealEstates
    THEN {g \in RealEstates : color[g] = color[f]}
    ELSE {}

has_color(f) == f \in RealEstates

(***************************************************************************)
(* Sequence helpers (python lists).                                        *)
(***************************************************************************)
Range(s) == {s[i] : i \in DOMAIN s}

RECURSIVE SeqSum(_)
SeqSum(s) == IF s = <<>> THEN 0 ELSE Head(s) + SeqSum(Tail(s))

\* list.remove(x): drops the first occurrence
RECURSIVE list_remove(_, _)
list_remove(s, x) ==
    IF s = <<>> THEN <<>>
    ELSE IF Head(s) = x THEN Tail(s)
    ELSE <<Head(s)>> \o list_remove(Tail(s), x)

\* the elements of a set of integers, ascending
RECURSIVE SetToSeq(_)
SetToSeq(S) ==
    IF S = {} THEN <<>>
    ELSE LET m == CHOOSE x \in S : \A y \in S : x <= y
         IN <<m>> \o SetToSeq(S \ {m})

Min(S) == CHOOSE x \in S : \A y \in S : x <= y
Max(S) == CHOOSE x \in S : \A y \in S : x >= y

(***************************************************************************)
(* Offers (python dicts).  NoOffer stands for pending_offer = False.       *)
(***************************************************************************)
NoOffer ==
    [player_from |-> None, player_to |-> None, money_offered |-> 0,
     money_requested |-> 0, property_offered |-> None,
     property_requested |-> None]

\* `if player.pending_offer:`
has_offer(o) == o # NoOffer

(***************************************************************************)
(* Card decks.  cards_stack, stack_pos and jail_card_out are attributes of *)
(* the classes ChanceField and CommunityChest.  The stack starts in the    *)
(* order of the list literal and is shuffled only when it is exhausted;    *)
(* after a shuffle the order is unknown, so the card under the cursor is   *)
(* any card not yet passed since the shuffle (stack_rest), and stack_known *)
(* tells that the stack is still in the literal order.                     *)
(***************************************************************************)
DeckTypes == {"chance", "community_chest"}

chance_cards ==
    <<"AdvanceToBoardWalk", "AdvanceToGo", "AdvanceToIllinoisAvenue",
      "AdvanceToCharlesPlace", "AdvanceToNeareastRailroad",
      "AdvanceToNearestUtility", "BankDividend", "GetOutOfJailFree",
      "GoBack3Spaces", "GoToJail", "RepairsOfProperties", "SpeedingFines",
      "GoToReadingRailroad", "ChairmanElection", "LoanMatures">>

community_chest_cards ==
    <<"AdvanceToGo", "BankError", "DocktorFee", "StockSale",
      "GetOutOfJailFree", "GoToJail", "HolidayFundMatures",
      "IncomeTaxRefund", "Birthday", "LifeInsuranceMatures", "HospitalFees",
      "SchoolFees", "ConsultancyFee", "StreetRepair", "BeautyPrize",
      "InheritanceCard">>

cards_of(t) == IF t = "chance" THEN chance_cards ELSE community_chest_cards

(***************************************************************************)
(* The state of one game: the Players, the Fields' mutable attributes and  *)
(* the decks.  error names the exception that ended the program, or "".    *)
(***************************************************************************)
VARIABLES
    pos, money, properties, jail_turns_remain, is_bankrupt,
    community_jail_free_card, chance_jail_free_card, pending_offer,
    owner, is_mortgage, build_level,
    stack_pos, jail_card_out, stack_known, stack_rest,
    error

World ==
    [pos |-> pos, money |-> money, properties |-> properties,
     jail_turns_remain |-> jail_turns_remain, is_bankrupt |-> is_bankrupt,
     community_jail_free_card |-> community_jail_free_card,
     chance_jail_free_card |-> chance_jail_free_card,
     pending_offer |-> pending_offer, owner |-> owner,
     is_mortgage |-> is_mortgage, build_level |-> build_level,
     stack_pos |-> stack_pos, jail_card_out |-> jail_card_out,
     stack_known |-> stack_known, stack_rest |-> stack_rest,
     error |-> error]

SetWorld(w) ==
    /\ pos' = w.pos
    /\ money' = w.money
    /\ properties' = w.properties
    /\ jail_turns_remain' = w.jail_turns_remain
    /\ is_bankrupt' = w.is_bankrupt
    /\ community_jail_free_card' = w.community_jail_free_card
    /\ chance_jail_free_card' = w.chance_jail_free_card
    /\ pending_offer' = w.pending_offer
    /\ owner' = w.owner
    /\ is_mortgage' = w.is_mortgage
    /\ build_level' = w.build_level
    /\ stack_pos' = w.stack_pos
    /\ jail_card_out' = w.jail_card_out
    /\ stack_known' = w.stack_known
    /\ stack_rest' = w.stack_rest
    /\ error' = w.error

\* an uncaught exception ends the program: nothing after it runs
raise(w, exc) == [w EXCEPT !.error = exc]
ok(w) == w.error = ""

(***************************************************************************)
(* Purchasable (engine/fields.py)                                          *)
(***************************************************************************)
\* a faulty variant: the mortgaged flag survives the release
set_owner_keeping_mortgage(w, f, val) == [w EXCEPT !.owner[f] = val]

set_owner(w, f, val) ==
    [w EXCEPT !.owner[f] = val,
              !.is_mortgage[f] = IF val = None THEN FALSE ELSE @]

\* get_player(None) indexes the list of players with None: TypeError
mortgage(w, f) ==
    IF w.owner[f] = None THEN raise(w, "TypeError")
    ELSE [w EXCEPT !.money[w.owner[f]] = @ + D(price[f]) \div 2,
                   !.is_mortgage[f] = TRUE]

\* int((price / 2) * 1.1)
free_mortgage_cost(f) == (11 * price[f]) \div 20

free_mortgage(w, f) ==
    IF w.owner[f] = None THEN raise(w, "TypeError")
    ELSE [w EXCEPT !.money[w.owner[f]] = @ - D(free_mortgage_cost(f)),
                   !.is_mortgage[f] = FALSE]

sell_house(w, f) ==
    IF w.owner[f] = None
    THEN raise([w EXCEPT !.build_level[f] = @ - 1], "TypeError")
    ELSE [w EXCEPT !.build_level[f] = @ - 1,
                   !.money[w.owner[f]] = @ + D(house_cost[f]) \div 2]

\* sell_hotel lowers the level and then reads self.onwer, an attribute no
\* Property has: AttributeError
sell_hotel(w, f) ==
    raise([w EXCEPT !.build_level[f] = @ - 1], "AttributeError")

(***************************************************************************)
(* Player (engine/game.py)                                                 *)
(***************************************************************************)
add_property(w, p, f) ==
    set_owner([w EXCEPT !.properties[p] = Append(@, f)], f, p)

\* list.remove raises ValueError when the id is not in the list
remove_property(w, p, f) ==
    IF f \notin Range(w.properties[p])
    THEN raise(w, "ValueError")
    ELSE set_owner([w EXCEPT !.properties[p] = list_remove(@, f)], f, None)

\* a faulty variant: the id is appended and the price paid, the field's
\* owner is left as it was
buy_property_keeping_owner(w, p, f) ==
    [w EXCEPT !.properties[p] = Append(@, f), !.money[p] = @ - D(price[f])]

buy_property(w, p, f) ==
    [add_property(w, p, f) EXCEPT !.money[p] = @ - D(price[f])]

use_jail_free_card(w, p) ==
    IF w.chance_jail_free_card[p]
    THEN [w EXCEPT !.chance_jail_free_card[p] = FALSE,
                   !.jail_card_out["chance"] = FALSE,
                   !.jail_turns_remain[p] = 0]
    ELSE IF w.community_jail_free_card[p]
    THEN [w EXCEPT !.community_jail_free_card[p] = FALSE,
                   !.jail_card_out["community_chest"] = FALSE,
                   !.jail_turns_remain[p] = 0]
    ELSE w

pay_jail_fine(w, p) ==
    [w EXCEPT !.jail_turns_remain[p] = 0, !.money[p] = @ - D(50)]

RECURSIVE release_all(_, _)
release_all(w, props) ==
    IF props = <<>> THEN w
    ELSE release_all(set_owner(w, Head(props), None), Tail(props))

bankruptcy(w, p) ==
    [release_all([w EXCEPT !.is_bankrupt[p] = TRUE], w.properties[p])
        EXCEPT !.properties[p] = <<>>, !.pos[p] = 0, !.money[p] = 0]

(***************************************************************************)
(* GameRound helpers (engine/game.py)                                      *)
(***************************************************************************)
\* a faulty variant: bankrupt players stay in the list
get_players_in_game_all(w) == SetToSeq(Players)

get_players_in_game(w) ==
    SelectSeq(SetToSeq(Players), LAMBDA p : ~w.is_bankrupt[p])

\* a faulty variant: the loop also stops with two players left
winner_of_two(w) == Cardinality({p \in Players : ~w.is_bankrupt[p]}) <= 2

winner(w) == Cardinality({p \in Players : ~w.is_bankrupt[p]}) = 1

put_in_prison(w, p) ==
    [w EXCEPT !.pos[p] = prison_id, !.jail_turns_remain[p] = 3]

\* one transfer of exec_offer: giver.remove_property, taker.add_property
transfer(w, giver, taker, f) ==
    LET w1 == remove_property(w, giver, f)
    IN IF ok(w1) THEN add_property(w1, taker, f) ELSE w1

\* a faulty variant: the cash deltas are applied before the transfers, so
\* a transfer that raises leaves them behind
exec_offer_cash_first(w, offer) ==
    LET pf == offer.player_from
        pt == offer.player_to
        off == offer.property_offered
        w1 == [w EXCEPT !.money[pf] = @ + offer.money_requested
                                        - offer.money_offered,
                        !.money[pt] = @ - offer.money_requested
                                        + offer.money_offered]
    IN IF off # None THEN transfer(w1, pf, pt, off) ELSE w1

\* a faulty variant: the offers of the other players are left as they are
exec_offer_keeping_offers(w, offer) ==
    LET pf == offer.player_from
        pt == offer.player_to
        req == offer.property_requested
        off == offer.property_offered
        w1 == IF req # None THEN transfer(w, pt, pf, req) ELSE w
        w2 == IF ok(w1) /\ off # None THEN transfer(w1, pf, pt, off) ELSE w1
    IN IF ok(w2)
       THEN [w2 EXCEPT !.money[pf] = @ + offer.money_requested
                                       - offer.money_offered,
                       !.money[pt] = @ - offer.money_requested
                                       + offer.money_offered]
       ELSE w2

exec_offer(w, offer) ==
    LET pf == offer.player_from
        pt == offer.player_to
        req == offer.property_requested
        off == offer.property_offered
        w1 == IF req # None THEN transfer(w, pt, pf, req) ELSE w
        w2 == IF ok(w1) /\ off # None THEN transfer(w1, pf, pt, off) ELSE w1
        w3 == [w2 EXCEPT !.money[pf] = @ + offer.money_requested,
                         !.money[pt] = @ - offer.money_requested]
        w4 == [w3 EXCEPT !.money[pf] = @ - offer.money_offered,
                         !.money[pt] = @ + offer.money_offered]
        traded == {req, off} \ {None}
        \* remove all pending offers that regard properties traded
        w5 == [w4 EXCEPT !.pending_offer =
                  [q \in Players |->
                      IF /\ has_offer(w4.pending_offer[q])
                         /\ \/ w4.pending_offer[q].property_requested \in traded
                            \/ w4.pending_offer[q].property_offered \in traded
                      THEN NoOffer
                      ELSE w4.pending_offer[q]]]
    IN IF ok(w2) THEN w5 ELSE w2

(***************************************************************************)
(* engine/agent_funcs.py                                                   *)
(***************************************************************************)
monopoly_gain(w, property_id, player_properties) ==
    LET color_group == get_property_group_ids(property_id)
    IN IF ~has_color(property_id) THEN FALSE
       ELSE color_group \subseteq (Range(player_properties) \cup {property_id})

\* the pairs <<a, b>> for a in s (outer loop), b in t (inner loop) with keep
RECURSIVE pairs_inner(_, _, _, _)
pairs_inner(w, a, t, own) ==
    IF t = <<>> THEN <<>>
    ELSE (IF Head(t) # own /\ monopoly_gain(w, a, w.properties[Head(t)])
          THEN <<(<<a, Head(t)>>)>> ELSE <<>>)
         \o pairs_inner(w, a, Tail(t), own)

RECURSIVE pairs_outer(_, _, _, _)
pairs_outer(w, s, t, own) ==
    IF s = <<>> THEN <<>>
    ELSE pairs_inner(w, Head(s), t, own) \o pairs_outer(w, Tail(s), t, own)

\* list of (property_id, buyer_player_id)
identify_properties_for_sale(w, p) ==
    pairs_outer(w, w.properties[p], get_players_in_game(w), p)

\* pd.Series(data=None, index=player.properties): every value of the
\* 'owned' column is NaN, for the rows the merge matched as for the others
owned_isna(w, p, f) == TRUE

lack_num(w, p, f) ==
    Cardinality({g \in get_property_group_ids(f) : owned_isna(w, p, g)})

RECURSIVE owners_of(_, _, _, _)
owners_of(w, f, t, own) ==
    IF t = <<>> THEN <<>>
    ELSE (IF Head(t) # own /\ f \in Range(w.properties[Head(t)])
          THEN <<(<<f, Head(t)>>)>> ELSE <<>>)
         \o owners_of(w, f, Tail(t), own)

RECURSIVE buy_poss(_, _, _)
buy_poss(w, p, ids) ==
    IF ids = <<>> THEN <<>>
    ELSE owners_of(w, Head(ids), get_players_in_game(w), p)
         \o buy_poss(w, p, Tail(ids))

\* list of (property_id, property_owner_id)
identify_properties_for_buy(w, p) ==
    LET one_lack_properties_ids ==
            SelectSeq(SetToSeq(RealEstates),
                      LAMBDA f : lack_num(w, p, f) = 1 /\ owned_isna(w, p, f))
    IN buy_poss(w, p, one_lack_properties_ids)

(***************************************************************************)
(* sorted(..., key) and DataFrame.sort_values: a stable sort of records by *)
(* (k1, k2); and the prefix up to the first cumulative sum that reaches    *)
(* the need (all of it if none does).                                      *)
(***************************************************************************)
key_le(a, b) == a.k1 < b.k1 \/ (a.k1 = b.k1 /\ a.k2 <= b.k2)

RECURSIVE insert_sorted(_, _)
insert_sorted(s, x) ==
    IF s = <<>> THEN <<x>>
    ELSE IF key_le(Head(s), x) THEN <<Head(s)>> \o insert_sorted(Tail(s), x)
    ELSE <<x>> \o s

RECURSIVE stable_sort(_)
stable_sort(s) ==
    IF s = <<>> THEN <<>>
    ELSE insert_sorted(stable_sort(SubSeq(s, 1, Len(s) - 1)), s[Len(s)])

RECURSIVE cash_sum(_)
cash_sum(s) == IF s = <<>> THEN 0 ELSE Head(s).cash + cash_sum(Tail(s))

\* cash_against_need = cumsum >= need; slice(argmax + 1) if any else all
covering_prefix(s, need) ==
    LET hits == {i \in 1 .. Len(s) : cash_sum(SubSeq(s, 1, i)) >= need}
    IN IF hits # {} THEN SubSeq(s, 1, Min(hits)) ELSE s

ids_of(s) == [i \in 1 .. Len(s) |-> s[i].id]

mortgage_candidates(w, p) ==
    LET cand == SelectSeq(w.properties[p],
                    LAMBDA f : /\ ~w.is_mortgage[f]
                               /\ ~(has_color(f) /\ w.build_level[f] > 0))
    IN [i \in 1 .. Len(cand) |->
           [id |-> cand[i], k1 |-> D(price[cand[i]] \div 2), k2 |-> 0,
            cash |-> D(price[cand[i]] \div 2)]]

\* a faulty variant: the candidates are taken in the order bought
identify_mortgages_unsorted(w, p, money_needed) ==
    LET subset == covering_prefix(mortgage_candidates(w, p), money_needed)
    IN [ids |-> ids_of(subset), cash |-> cash_sum(subset)]

\* returns the ids to mortgage and the cash they raise
identify_mortgages(w, p, money_needed) ==
    LET to_mortage == stable_sort(mortgage_candidates(w, p))
        subset == covering_prefix(to_mortage, money_needed)
    IN [ids |-> ids_of(subset), cash |-> cash_sum(subset)]

\* one row per build level of a developed property the player owns
RECURSIVE sale_rows(_, _)
sale_rows(w, props) ==
    IF props = <<>> THEN <<>>
    ELSE LET f == Head(props)
         IN (IF has_color(f) /\ w.build_level[f] > 0
             THEN [lvl \in 1 .. w.build_level[f] |->
                      [id |-> f, level |-> lvl, color |-> color[f],
                       cash |-> IF lvl # 5 THEN D(house_cost[f]) \div 2
                                ELSE D(hotel_cost[f]) \div 2]]
             ELSE <<>>)
            \o sale_rows(w, Tail(props))

\* returns the ids to sell one level from, in order, and the cash expected
identify_sales_to_bank(w, p, money_needed) ==
    LET to_sell == sale_rows(w, w.properties[p])
        colors_order(c) ==
            Min({to_sell[i].id : i \in {j \in DOMAIN to_sell :
                                          to_sell[j].color = c}})
        \* sort by colors_order, then by inv_level = 1 / level
        keyed == [i \in DOMAIN to_sell |->
                     [id |-> to_sell[i].id, cash |-> to_sell[i].cash,
                      k1 |-> colors_order(to_sell[i].color),
                      k2 |-> 0 - to_sell[i].level]]
        df == stable_sort(keyed)
        subset == covering_prefix(df, money_needed)
    IN [ids |-> ids_of(subset), cash |-> cash_sum(subset)]

\* list of (property_id, next_level)
identify_properties_to_improve(w, p) ==
    LET may(f) ==
            /\ has_color(f)
            /\ get_property_group_ids(f) \subseteq Range(w.properties[p])
            /\ w.build_level[f] =
                   Min({w.build_level[g] : g \in get_property_group_ids(f)})
            /\ w.build_level[f] < 5
        ids == SelectSeq(w.properties[p], may)
    IN [i \in 1 .. Len(ids) |-> <<ids[i], w.build_level[ids[i]] + 1>>]

RECURSIVE sell_houses(_, _)
sell_houses(w, ids) ==
    IF ids = <<>> THEN w
    ELSE sell_houses(sell_house(w, Head(ids)), Tail(ids))

RECURSIVE mortgage_all(_, _)
mortgage_all(w, ids) ==
    IF ids = <<>> THEN w
    ELSE mortgage_all(mortgage(w, Head(ids)), Tail(ids))

handle_negative_balance(w, p) ==
    LET needed_cash == IF w.money[p] < 0 THEN 0 - w.money[p] ELSE w.money[p]
        first == identify_mortgages(w, p, needed_cash)
        sales == identify_sales_to_bank(w, p, needed_cash - first.cash)
        full_cash_raised == first.cash + sales.cash
        w1 == sell_houses(w, sales.ids)
        \* further mortgages, identified before any mortgage is applied
        second == identify_mortgages(w1, p, needed_cash - full_cash_raised)
    IN IF first.cash < needed_cash
       THEN IF full_cash_raised < needed_cash
            THEN mortgage_all(w1, first.ids \o second.ids)
            ELSE mortgage_all(w1, first.ids)
       ELSE mortgage_all(w, first.ids)

(***************************************************************************)
(* FixedPolicyAgent (engine/agent.py)                                      *)
(***************************************************************************)
is_purchasable(f) == f \in Purchasables

\* a faulty variant: the owner of the field is not looked at
consider_property_buy_owned(w, p) ==
    LET prop == w.pos[p]
    IN IF ~is_purchasable(prop) THEN FALSE
       ELSE w.money[p] - D(price[prop]) >= D(200)

consider_property_buy(w, p) ==
    LET prop == w.pos[p]
    IN IF ~is_purchasable(prop) THEN FALSE
       ELSE IF w.owner[prop] # None THEN FALSE
       ELSE w.money[p] - D(price[prop]) >= D(200)

\* offer balance for the player who would receive the offer
get_offer_net_worth(offer) ==
    LET req_value == IF offer.property_requested # None
                     THEN D(price[offer.property_requested]) ELSE 0
        off_value == IF offer.property_offered # None
                     THEN D(price[offer.property_offered]) ELSE 0
        req_cash == offer.money_offered
        off_cash == offer.money_requested
    IN (off_value + off_cash) - (req_value + req_cash)

get_offer_type(offer) ==
    LET req == offer.property_requested
        off == offer.property_offered
    IN IF req = None /\ off # None THEN "sell_to_player"
       ELSE IF req # None /\ off = None THEN "buy_from_player"
       ELSE IF req # None /\ off # None THEN "exchange_offer"
       ELSE "ValueError"

\* a faulty variant: the exchange branch is reached
consider_offer_exchanging(w, p) ==
    LET offer == w.pending_offer[p]
        offer_type == get_offer_type(offer)
        net_worth == get_offer_net_worth(offer)
    IN IF offer_type = "sell_to_player"
       THEN \/ /\ monopoly_gain(w, offer.property_offered, w.properties[p])
               /\ net_worth > 0 - D(200)
            \/ net_worth > 0
       ELSE IF offer_type = "buy_from_player"
       THEN net_worth > D(200)
       ELSE IF offer_type = "exchange_offer"
       THEN /\ monopoly_gain(w, offer.property_offered,
                   SelectSeq(w.properties[p],
                             LAMBDA f : f # offer.property_requested))
            /\ net_worth > 0 - D(200)
       ELSE FALSE

\* accept or reject the player's pending offer
consider_offer(w, p) ==
    LET offer == w.pending_offer[p]
        offer_type == get_offer_type(offer)
        net_worth == get_offer_net_worth(offer)
    IN IF offer_type = "sell_to_player"
       THEN \/ /\ monopoly_gain(w, offer.property_offered, w.properties[p])
               /\ net_worth > 0 - D(200)
            \/ net_worth > 0
       ELSE IF offer_type = "buy_from_player"
       THEN net_worth > D(200)
       ELSE IF offer_type = "echange_offer"
       THEN /\ monopoly_gain(w, offer.property_offered,
                   SelectSeq(w.properties[p],
                             LAMBDA f : f # offer.property_requested))
            /\ net_worth > 0 - D(200)
       ELSE FALSE

\* an offer that was accepted raises inside exec_offer before the pending
\* offer is cleared
check_pending_offer(w, p) ==
    IF has_offer(w.pending_offer[p])
    THEN LET offer == w.pending_offer[p]
             w1 == IF consider_offer(w, p) THEN exec_offer(w, offer) ELSE w
         IN IF ok(w1) THEN [w1 EXCEPT !.pending_offer[p] = NoOffer] ELSE w1
    ELSE w

offer_scheme(p) == [NoOffer EXCEPT !.player_from = p]

\* 1.25 * price and 1.5 * price, in units
times_1_25(f) == (5 * D(price[f])) \div 4
times_1_5(f) == (3 * D(price[f])) \div 2

\* the buy loop: returns the world and the positions of the offers placed
RECURSIVE buy_loop(_, _, _, _)
buy_loop(w, p, to_buy, i) ==
    IF i > Len(to_buy) THEN [w |-> w, used |-> {}]
    ELSE LET prop_id == to_buy[i][1]
             player_id == to_buy[i][2]
             money_offered == times_1_25(prop_id)
             skip == \/ has_offer(w.pending_offer[player_id])
                     \/ w.money[p] <= money_offered
             offer == [offer_scheme(p) EXCEPT
                          !.money_offered = money_offered,
                          !.player_to = player_id,
                          !.property_requested = prop_id]
             w1 == IF skip THEN w
                   ELSE [w EXCEPT !.pending_offer[player_id] = offer]
             rest == buy_loop(w1, p, to_buy, i + 1)
         IN [w |-> rest.w,
             used |-> rest.used \cup (IF skip THEN {} ELSE {i})]

RECURSIVE sell_loop(_, _, _, _)
sell_loop(w, p, to_sell, i) ==
    IF i > Len(to_sell) THEN [w |-> w, used |-> {}]
    ELSE LET prop_id == to_sell[i][1]
             player_id == to_sell[i][2]
             money_requested == times_1_5(prop_id)
             skip == \/ has_offer(w.pending_offer[player_id])
                     \/ w.money[player_id] <= money_requested
             offer == [offer_scheme(p) EXCEPT
                          !.money_requested = money_requested,
                          !.property_offered = prop_id,
                          !.player_to = player_id]
             w1 == IF skip THEN w
                   ELSE [w EXCEPT !.pending_offer[player_id] = offer]
             rest == sell_loop(w1, p, to_sell, i + 1)
         IN [w |-> rest.w,
             used |-> rest.used \cup (IF skip THEN {} ELSE {i})]

\* pd.merge(sell_df, buy_df, on='player_id'): the rows of sell_df and
\* buy_df left unused, paired on the target player, in the order of sell_df.
\* buy_df['target_player_cash'] is aligned on the row label: row i of buy_df
\* gets the cash of the player row i of sell_df names (NaN if there is none)
trade_rows(w, p, to_sell, used_sell, to_buy, used_buy) ==
    LET rows == {<<i, j>> \in (DOMAIN to_sell \ used_sell)
                              \X (DOMAIN to_buy \ used_buy) :
                    to_sell[i][2] = to_buy[j][2]}
        key(r) == r[1] * (Len(to_buy) + 1) + r[2]
        order == SetToSeq({key(r) : r \in rows})
        row(k) == CHOOSE r \in rows : key(r) = k
    IN [n \in 1 .. Len(order) |->
           LET r == row(order[n])
               i == r[1]
               j == r[2]
           IN [player_id |-> to_sell[i][2],
               property_id_offered |-> to_sell[i][1],
               property_id_requested |-> to_buy[j][1],
               cash_is_nan |-> j \notin (DOMAIN to_sell \ used_sell),
               target_player_cash |->
                   IF j \in (DOMAIN to_sell \ used_sell)
                   THEN w.money[to_sell[j][2]] ELSE 0]]

trade_is_possible(w, p, r) ==
    LET balance == D(price[r.property_id_offered])
                   - D(price[r.property_id_requested])
    IN IF balance < 0
       THEN ~r.cash_is_nan /\ balance + r.target_player_cash > 0
       ELSE balance + w.money[p] > 0

RECURSIVE exchange_loop(_, _, _)
exchange_loop(w, p, rows) ==
    IF rows = <<>> THEN w
    ELSE LET r == Head(rows)
             base == [offer_scheme(p) EXCEPT
                         !.player_to = r.player_id,
                         !.property_requested = r.property_id_requested,
                         !.property_offered = r.property_id_offered]
             net_worth == get_offer_net_worth(base)
             offer == IF net_worth >= 0
                      THEN [base EXCEPT !.money_requested = net_worth]
                      ELSE [base EXCEPT !.money_offered = 0 - net_worth]
             w1 == IF has_offer(w.pending_offer[r.player_id]) THEN w
                   ELSE [w EXCEPT !.pending_offer[r.player_id] = offer]
         IN exchange_loop(w1, p, Tail(rows))

make_offers(w, p) ==
    LET to_buy == identify_properties_for_buy(w, p)
        to_sell == identify_properties_for_sale(w, p)
        b == buy_loop(w, p, to_buy, 1)
        s == sell_loop(b.w, p, to_sell, 1)
        trade_df == trade_rows(s.w, p, to_sell, s.used, to_buy, b.used)
    IN exchange_loop(s.w, p,
           SelectSeq(trade_df, LAMBDA r : trade_is_possible(s.w, p, r)))

RECURSIVE build_loop(_, _, _)
build_loop(w, p, ids) ==
    IF ids = <<>> THEN w
    ELSE LET f == Head(ids)
             cost == IF w.build_level[f] < 4 THEN D(house_cost[f])
                     ELSE D(hotel_cost[f])
             w1 == IF w.money[p] - cost > D(200)
                   THEN [w EXCEPT !.money[p] = @ - cost,
                                  !.build_level[f] = @ + 1]
                   ELSE w
         IN build_loop(w1, p, Tail(ids))

make_builds(w, p) ==
    LET poss == identify_properties_to_improve(w, p)
    IN build_loop(w, p, [i \in 1 .. Len(poss) |-> poss[i][1]])

\* `if prop.mortgage:` tests the bound method Purchasable.mortgage, which is
\* always true, not the flag is_mortgage
prop_mortgage_truthy(w, f) == TRUE

\* money - (price / 2) * 1.1 > 400, times 20 dollars (10 units)
can_pay_mortgage(w, p, f) == 10 * w.money[p] - 11 * price[f] > 8000

RECURSIVE manage_loop(_, _, _)
manage_loop(w, p, ids) ==
    IF ids = <<>> THEN w
    ELSE LET f == Head(ids)
             w1 == IF prop_mortgage_truthy(w, f) /\ can_pay_mortgage(w, p, f)
                   THEN free_mortgage(w, f) ELSE w
         IN manage_loop(w1, p, Tail(ids))

manage_mortgages(w, p) == manage_loop(w, p, w.properties[p])

\* the jail part of make_pre_roll_moves
jail_moves(w, p) ==
    IF w.jail_turns_remain[p] # 0
    THEN IF w.community_jail_free_card[p] \/ w.chance_jail_free_card[p]
         THEN use_jail_free_card(w, p)
         ELSE IF w.money[p] > D(250) THEN pay_jail_fine(w, p)
         ELSE w
    ELSE w

(***************************************************************************)
(* Field reactions (engine/fields.py) and cards (engine/cards.py).  A dice *)
(* roll or a shuffled stack makes the outcome a set of worlds.             *)
(***************************************************************************)
\* np.random.randint(1, 7, (2,)).sum()
DiceSums == {a + b : a \in 1 .. 6, b \in 1 .. 6}

NoForce == -1

pay_fee(w, p, to, fee) ==
    [w EXCEPT !.money[p] = @ - D(fee), !.money[to] = @ + D(fee)]

\* Property.fee_
property_fee(w, p, f) ==
    IF w.is_mortgage[f] THEN w
    ELSE pay_fee(w, p, w.owner[f], fees[f][w.build_level[f] + 1])

\* a faulty variant: 25 for every station owned
calc_fee_per_station(w, f) ==
    LET owned_train_num ==
            Cardinality({t \in Trains : w.owner[t] = w.owner[f]})
    IN 25 * owned_train_num

\* TrainStation.calc_fee: fees = {1: 25, 2: 50, 3: 100, 4: 200}
calc_fee(w, f) ==
    LET owned_train_num ==
            Cardinality({t \in Trains : w.owner[t] = w.owner[f]})
    IN <<25, 50, 100, 200>>[owned_train_num]

train_fee(w, p, f) == pay_fee(w, p, w.owner[f], calc_fee(w, f))

utils_common_owner(w) ==
    w.owner[Min(Utilities)] = w.owner[Max(Utilities)]

\* UtilityField.fee_
utility_fee(w, p, f, force_roll_sum) ==
    LET multipier == IF utils_common_owner(w) THEN 10 ELSE 4
        rolls == IF force_roll_sum # NoForce THEN {force_roll_sum}
                 ELSE DiceSums
    IN {pay_fee(w, p, w.owner[f], roll_sum * multipier) : roll_sum \in rolls}

\* Purchasable.react
purchasable_react(w, p, f, force_roll_sum) ==
    IF p # w.owner[f] /\ w.owner[f] # None
    THEN IF w.jail_turns_remain[p] # 0 THEN {w}
         ELSE IF f \in RealEstates THEN {property_fee(w, p, f)}
         ELSE IF f \in Trains THEN {train_fee(w, p, f)}
         ELSE utility_fee(w, p, f, force_roll_sum)
    ELSE {w}

\* get_nearest_field: the first field of the class after current_pos, the
\* first of all if there is none
get_nearest_field(current_pos, class) ==
    IF current_pos > Max(class) THEN Min(class)
    ELSE IF {f \in class : f > current_pos} = {} THEN Min(class)
    ELSE Min({f \in class : f > current_pos})

\* RepairsOfProperties (per_level = 25) and StreetRepair (per_level = 40)
repair_fee(w, p, per_level) ==
    LET lvl(f) == w.build_level[f]
        built == SelectSeq(w.properties[p], LAMBDA f : f \in RealEstates)
    IN SeqSum([i \in 1 .. Len(built) |->
                  lvl(built[i]) * per_level
                  + (IF lvl(built[i]) = 5 THEN 75 ELSE 0)])

\* ChairmanElection (amount = 50) and Birthday (amount = 10): the drawing
\* player collects the amount from every other player in the game
collect_from_all(w, p, amount) ==
    LET others == {q \in Players : ~w.is_bankrupt[q] /\ q # p}
    IN [w EXCEPT !.money =
           [q \in Players |->
               IF q = p THEN w.money[p] + D(amount) * Cardinality(others)
               ELSE IF q \in others THEN w.money[q] - D(amount)
               ELSE w.money[q]]]

add_money(w, p, amount) == [w EXCEPT !.money[p] = @ + D(amount)]

\* the stack of type t with the cursor moved past card c
advance(w, t, c) ==
    [w EXCEPT !.stack_pos[t] = @ + 1, !.stack_rest[t] = @ \ {c}]

\* a faulty variant: the jail-free card is drawn again while it is out
draw_without_skip(w, t) ==
    LET cards == cards_of(t)
        w0 == IF w.stack_pos[t] = Len(cards)
              THEN [w EXCEPT !.stack_pos[t] = 0, !.stack_known[t] = FALSE,
                             !.stack_rest[t] = Range(cards)]
              ELSE w
        under == IF w0.stack_known[t] THEN {cards[w0.stack_pos[t] + 1]}
                 ELSE w0.stack_rest[t]
    IN {[w |-> w0, card |-> c] : c \in under}

\* CardsField.react up to the card it settles on: reshuffle an exhausted
\* stack, skip the jail-free card while it is out, mark it out when drawn
RECURSIVE draw(_, _)
draw(w, t) ==
    LET cards == cards_of(t)
        w0 == IF w.stack_pos[t] = Len(cards)
              THEN [w EXCEPT !.stack_pos[t] = 0, !.stack_known[t] = FALSE,
                             !.stack_rest[t] = Range(cards)]
              ELSE w
        under == IF w0.stack_known[t] THEN {cards[w0.stack_pos[t] + 1]}
                 ELSE w0.stack_rest[t]
    IN UNION {IF w0.jail_card_out[t] /\ c = "GetOutOfJailFree"
              THEN draw(advance(w0, t, c), t)
              ELSE {[w |-> IF c = "GetOutOfJailFree"
                           THEN [w0 EXCEPT !.jail_card_out[t] = TRUE]
                           ELSE w0,
                     card |-> c]} : c \in under}

RECURSIVE react(_, _, _)
RECURSIVE card_call(_, _, _)
RECURSIVE cards_react(_, _, _)

move_and_react(w, p, f) == react([w EXCEPT !.pos[p] = f], p, f)

\* Card.__call__ of each card class
card_call(w, p, c) ==
    CASE c = "AdvanceToBoardWalk" -> move_and_react(w, p, 39)
      [] c = "AdvanceToGo" ->
            {add_money([w EXCEPT !.pos[p] = 0], p, 200)}
      [] c = "AdvanceToIllinoisAvenue" -> move_and_react(w, p, 24)
      [] c = "AdvanceToCharlesPlace" -> move_and_react(w, p, 11)
      [] c = "AdvanceToNeareastRailroad" ->
            LET f == get_nearest_field(w.pos[p], Trains)
            IN \* two calls for two times fee
               UNION {react(w1, p, f) : w1 \in move_and_react(w, p, f)}
      [] c = "AdvanceToNearestUtility" ->
            LET f == get_nearest_field(w.pos[p], Utilities)
                w1 == [w EXCEPT !.pos[p] = f]
                roll_sums == IF w.owner[f] # None THEN DiceSums ELSE {0}
            IN UNION {purchasable_react(w1, p, f, roll_sum * 10) :
                          roll_sum \in roll_sums}
      [] c = "BankDividend" -> {add_money(w, p, 50)}
      [] c = "GetOutOfJailFree" -> {w}
      [] c = "GoBack3Spaces" ->
            LET curr_pos == w.pos[p]
                next_pos == IF curr_pos - 3 >= 0 THEN curr_pos - 3
                            ELSE 40 - (3 - curr_pos)
            IN move_and_react(w, p, next_pos)
      [] c = "GoToJail" -> {put_in_prison(w, p)}
      [] c = "RepairsOfProperties" ->
            {add_money(w, p, 0 - repair_fee(w, p, 25))}
      [] c = "SpeedingFines" -> {add_money(w, p, -15)}
      [] c = "GoToReadingRailroad" ->
            {[(IF w.pos[p] > 5 THEN add_money(w, p, 200) ELSE w)
                 EXCEPT !.pos[p] = 5]}
      [] c = "ChairmanElection" -> {collect_from_all(w, p, 50)}
      [] c = "LoanMatures" -> {add_money(w, p, 150)}
      [] c = "BankError" -> {add_money(w, p, 200)}
      [] c = "DocktorFee" -> {add_money(w, p, -50)}
      [] c = "StockSale" -> {add_money(w, p, 50)}
      [] c = "HolidayFundMatures" -> {add_money(w, p, 100)}
      [] c = "IncomeTaxRefund" -> {add_money(w, p, 20)}
      [] c = "Birthday" -> {collect_from_all(w, p, 10)}
      [] c = "LifeInsuranceMatures" -> {add_money(w, p, 100)}
      [] c = "HospitalFees" -> {add_money(w, p, -100)}
      [] c = "SchoolFees" -> {add_money(w, p, -50)}
      [] c = "ConsultancyFee" -> {add_money(w, p, 25)}
      [] c = "StreetRepair" ->
            {add_money(w, p, 0 - repair_fee(w, p, 40))}
      [] c = "BeautyPrize" -> {add_money(w, p, 10)}
      [] c = "InheritanceCard" -> {add_money(w, p, 100)}

\* CardsField.react: the card acts, then stack_pos += 1
cards_react(w, p, t) ==
    UNION {{advance(w2, t, d.card) : w2 \in card_call(d.w, p, d.card)} :
              d \in draw(w, t)}

\* field.react(player), by the class of the field
react(w, p, f) ==
    CASE field_type[f] \in {"property", "train", "utility"} ->
            purchasable_react(w, p, f, NoForce)
      [] field_type[f] = "income_tax" -> {add_money(w, p, -200)}
      [] field_type[f] = "luxury_tax" -> {add_money(w, p, -100)}
      [] field_type[f] = "go_to_jail" -> {put_in_prison(w, p)}
      [] field_type[f] \in DeckTypes -> cards_react(w, p, field_type[f])
      [] OTHER -> {w}

\* FixedPolicyAgent.make_roll
make_roll(w, p) ==
    UNION {LET result_pos == w.pos[p] + roll
               w1 == IF result_pos >= NFields THEN add_money(w, p, 200)
                     ELSE w
           IN move_and_react(w1, p, result_pos % NFields) :
              roll \in DiceSums}

(***************************************************************************)
(* ActionsMasking (model/masking.py).  A mask is given as the set of the   *)
(* entries it leaves finite.  Players are indexed by id, properties and    *)
(* real estates by field id (get_properties / get_real_estates order).     *)
(***************************************************************************)
get_properties_trade_mask(w, f) ==
    ~(w.is_mortgage[f]
      \/ (IF f \in RealEstates THEN w.build_level[f] ELSE 0) > 0)

get_properties_ownership_mask(w, q, f) == f \in Range(w.properties[q])

get_players_bankruptcy_mask(w, q) == w.is_bankrupt[q]

CashCategories == 1 .. 3

apply_exchange_trade_masking(w, p) ==
    {<<i, j, k>> \in Players \X Purchasables \X Purchasables :
        /\ i # p
        /\ j # k
        /\ get_properties_ownership_mask(w, p, j)
        /\ get_properties_ownership_mask(w, i, k)
        /\ ~get_players_bankruptcy_mask(w, i)
        /\ get_properties_trade_mask(w, j)
        /\ get_properties_trade_mask(w, k)}

apply_buy_trade_masking(w, p) ==
    {<<i, j, c>> \in Players \X Purchasables \X CashCategories :
        /\ i # p
        /\ get_properties_trade_mask(w, j)
        /\ ~get_players_bankruptcy_mask(w, i)
        /\ get_properties_ownership_mask(w, i, j)}

apply_sell_trade_masking(w, p) ==
    {<<i, j, c>> \in Players \X Purchasables \X CashCategories :
        /\ i # p
        /\ get_properties_trade_mask(w, j)
        /\ get_properties_ownership_mask(w, p, j)
        /\ ~get_players_bankruptcy_mask(w, i)}

\* row 0: houses, row 1: hotels
apply_improve_buildings_masking(w, p) ==
    LET to_improve == Range(identify_properties_to_improve(w, p))
    IN {<<0, a[1]>> : a \in {x \in to_improve : x[2] < 5}}
       \cup {<<1, a[1]>> : a \in {x \in to_improve : x[2] = 5}}

apply_sell_buildings_masking(w, p) ==
    LET owned_by_player(f) == f \in Range(w.properties[p])
    IN {<<0, f>> : f \in {g \in RealEstates :
                            /\ w.build_level[g] > 0 /\ w.build_level[g] < 5
                            /\ owned_by_player(g)}}
       \cup {<<1, f>> : f \in {g \in RealEstates :
                                 w.build_level[g] = 5 /\ owned_by_player(g)}}

apply_mortgage_masking(w, p) ==
    {<<f>> : f \in {g \in Purchasables :
                      g \in Range(w.properties[p]) /\ ~w.is_mortgage[g]}}

apply_free_mortgage_masking(w, p) ==
    {<<f>> : f \in {g \in Purchasables :
                      g \in Range(w.properties[p]) /\ w.is_mortgage[g]}}

\* ActionsMasking.apply: 'buy_trade' is sent to apply_sell_trade_masking
apply(w, p, action_type) ==
    CASE action_type = "exchange_trade" -> apply_exchange_trade_masking(w, p)
      [] action_type = "sell_trade" -> apply_sell_trade_masking(w, p)
      [] action_type = "buy_trade" -> apply_sell_trade_masking(w, p)
      [] action_type = "improve_buildings" ->
            apply_improve_buildings_masking(w, p)
      [] action_type = "sell_buildings" -> apply_sell_buildings_masking(w, p)
      [] action_type = "mortgage" -> apply_mortgage_masking(w, p)
      [] action_type = "free_mortgage" -> apply_free_mortgage_masking(w, p)
      [] OTHER -> {<<0>>}

(***************************************************************************)
(* DeepQNetwork.phase_allowable_actions (model/model.py) and               *)
(* HybridRLAgent.make_move (model/hybrid_agent.py).  The scores are any    *)
(* numbers, so the entry make_move settles on is any entry that the masks  *)
(* of the phase's groups leave finite.                                     *)
(***************************************************************************)
actions ==
    <<"exchange_trade", "sell_trade", "buy_trade", "improve_buildings",
      "sell_buildings", "mortgage", "free_mortgage", "skip_turn",
      "conclude_actions", "use_jail_free_card", "pay_jail_fine">>

phase_allowable_actions(game_phase) ==
    CASE game_phase = "pre_roll" -> actions
      [] game_phase = "out_of_turn" -> SubSeq(actions, 1, Len(actions) - 2)
      [] game_phase = "post_roll" -> SubSeq(actions, 5, 8)

\* (max_action_type, multidim_id) for some scores
selected_actions(w, p, game_phase) ==
    UNION {{[action_type |-> t, multidim_id |-> m] : m \in apply(w, p, t)} :
              t \in Range(phase_allowable_actions(game_phase))}

\* cash_cats = [0.75, 1., 1.25], times the price, in units
cash_cats(c, f) == ((c + 2) * D(price[f])) \div 4

\* a faulty variant: the offer is placed whatever the player holds
place_offer_always(w, other_player_id, offer) ==
    [w EXCEPT !.pending_offer[other_player_id] = offer]

place_offer(w, other_player_id, offer) ==
    IF ~has_offer(w.pending_offer[other_player_id])
    THEN [w EXCEPT !.pending_offer[other_player_id] = offer]
    ELSE w

\* the match statement of make_move: the world after the action and the
\* move code (0 took an action, 1 conclude actions, 2 skip turn)
make_move(w, p, a) ==
    LET t == a.action_type
        m == a.multidim_id
    IN CASE t = "exchange_trade_offer" ->
              LET net_val == D(price[m[3]]) - D(price[m[2]])
                  offer == [player_from |-> p, player_to |-> m[1],
                            property_requested |-> m[3],
                            property_offered |-> m[2],
                            money_offered |-> IF net_val > 0 THEN net_val
                                              ELSE 0,
                            money_requested |-> IF net_val < 0
                                                THEN 0 - net_val ELSE 0]
              IN [w |-> place_offer(w, m[1], offer), move_code |-> 0]
         [] t = "sell_trade" ->
              LET offer == [player_from |-> p, player_to |-> m[1],
                            property_offered |-> m[2],
                            property_requested |-> None,
                            money_offered |-> 0,
                            money_requested |-> cash_cats(m[3], m[2])]
              IN [w |-> place_offer(w, m[1], offer), move_code |-> 0]
         [] t = "buy_trade" ->
              LET offer == [player_from |-> p, player_to |-> m[1],
                            property_offered |-> None,
                            property_requested |-> m[2],
                            money_offered |-> cash_cats(m[3], m[2]),
                            money_requested |-> 0]
              IN [w |-> place_offer(w, m[1], offer), move_code |-> 0]
         [] t = "improve_buildings" ->
              LET estate == m[2]
                  w1 == IF m[1] = 0
                        THEN IF w.money[p] - D(house_cost[estate]) > 0
                             THEN [w EXCEPT
                                     !.build_level[estate] = @ + 1,
                                     !.money[p] = @ - D(house_cost[estate])]
                             ELSE w
                        ELSE IF w.money[p] - D(hotel_cost[estate]) > 0
                             THEN [w EXCEPT !.build_level[estate] = @ + 1]
                             ELSE w
              IN [w |-> w1, move_code |-> 0]
         [] t = "sell_buildings" ->
              [w |-> IF m[1] = 0 THEN sell_house(w, m[2])
                     ELSE sell_hotel(w, m[2]),
               move_code |-> 0]
         [] t = "mortgage" -> [w |-> mortgage(w, m[1]), move_code |-> 0]
         [] t = "free_mortgage" ->
              [w |-> free_mortgage(w, m[1]), move_code |-> 0]
         [] t = "conclude_actions" -> [w |-> w, move_code |-> 1]
         [] t = "use_jail_free_card" ->
              [w |-> use_jail_free_card(w, p), move_code |-> 0]
         [] t = "pay_jail_fine" ->
              [w |-> pay_jail_fine(w, p), move_code |-> 0]
         [] t = "skip_turn" -> [w |-> w, move_code |-> 2]
         [] OTHER -> [w |-> w, move_code |-> 2]

(***************************************************************************)
(* The selection of make_move (hybrid_agent.py 36-66) for given scores.    *)
(* q_values names the groups asked for, in order, and the scores that      *)
(* stand out: records of a group, an entry and a positive score.  Every    *)
(* other entry scores below zero, the lower the later it comes in its      *)
(* group, so inside a group only the scores that stand out can be equal.   *)
(***************************************************************************)
\* the place of an entry in the row-major order of its group
flat_index(e) ==
    CASE Len(e) = 1 -> e[1]
      [] Len(e) = 2 -> e[1] * NFields + e[2]
      [] OTHER -> (e[1] * NFields + e[2]) * NFields + e[3]

\* index 0 of a group: player 0, the first property or real estate, the
\* first cash category, the first kind of building
first_entry(action_type) ==
    CASE action_type = "exchange_trade" ->
            <<0, Min(Purchasables), Min(Purchasables)>>
      [] action_type \in {"sell_trade", "buy_trade"} ->
            <<0, Min(Purchasables), Min(CashCategories)>>
      [] action_type \in {"improve_buildings", "sell_buildings"} ->
            <<0, Min(RealEstates)>>
      [] action_type \in {"mortgage", "free_mortgage"} ->
            <<Min(Purchasables)>>
      [] OTHER -> <<0>>

qval(q_values, action_type, e) ==
    LET given == {r \in q_values.scores :
                    r.action_type = action_type /\ r.multidim_id = e}
    IN IF given # {} THEN (CHOOSE r \in given : TRUE).score
       ELSE 0 - (flat_index(e) + 1)

\* np.max of the masked scores: inf is FALSE when every entry is -inf
action_max_val(w, p, q_values, action_type) ==
    LET legal == apply(w, p, action_type)
    IN IF legal = {} THEN [inf |-> FALSE, val |-> 0]
       ELSE [inf |-> TRUE,
             val |-> Max({qval(q_values, action_type, e) : e \in legal})]

\* np.argwhere(qval_np == action_max_val)[0]
multidim_ids(w, p, q_values, action_type) ==
    LET legal == apply(w, p, action_type)
        top == action_max_val(w, p, q_values, action_type).val
        tops == {e \in legal : qval(q_values, action_type, e) = top}
    IN IF legal = {} THEN first_entry(action_type)
       ELSE CHOOSE e \in tops :
                \A e2 \in tops : flat_index(e) <= flat_index(e2)

\* tf.where(qval == action_max_val).numpy().item() raises ValueError when
\* the unmasked scores of the group hold the maximum more than once
flat_id_raises(w, p, q_values, action_type) ==
    LET m == action_max_val(w, p, q_values, action_type)
    IN /\ m.inf
       /\ Cardinality({r \in q_values.scores :
                          r.action_type = action_type /\ r.score = m.val}) > 1

\* a > b for two maxima
greater_val(a, b) == a.inf /\ (~b.inf \/ a.val > b.val)

\* the positions argmax can take: np.argmax, or the first group whose
\* maximum equals a finite maximum chosen at random (epsilon-greedy)
argmax_of(w, p, q_values, explore) ==
    LET types == q_values.action_types
        max_vals == [i \in 1 .. Len(types) |->
                        action_max_val(w, p, q_values, types[i])]
        first_with(v) == Min({i \in 1 .. Len(types) : max_vals[i] = v})
        valid_actions == {i \in 1 .. Len(types) : max_vals[i].inf}
    IN IF explore
       THEN {first_with(max_vals[r]) : r \in valid_actions}
       ELSE {Min({i \in 1 .. Len(types) :
                    \A j \in 1 .. Len(types) :
                        ~greater_val(max_vals[j], max_vals[i])})}

\* (max_action_type, multidim_id), or the ValueError of the flat ids or of
\* np.random.choice over no valid action
selected(w, p, q_values, explore) ==
    LET types == q_values.action_types
        picks == argmax_of(w, p, q_values, explore)
    IN IF \E i \in 1 .. Len(types) : flat_id_raises(w, p, q_values, types[i])
          \/ picks = {}
       THEN {[raised |-> TRUE, action_type |-> "", multidim_id |-> <<>>]}
       ELSE {[raised |-> FALSE, action_type |-> types[i],
              multidim_id |-> multidim_ids(w, p, q_values, types[i])] :
                i \in picks}

(***************************************************************************)
(* GameRound.play_game / next_turn (engine/game.py).  pc is the position   *)
(* in next_turn; players_in_game, out_of_turn_player_id,                   *)
(* skip_turn_counter and out_of_turn_count are its locals (the local       *)
(* current_player_id equals the attribute until the turn ends).            *)
(***************************************************************************)
VARIABLES
    current_player_id, turns_counter, pc, players_in_game,
    out_of_turn_player_id, skip_turn_counter, out_of_turn_count, result,
    hybrid_moves

\* a single call of one function of the program, outside a game's run: the
\* function and its arguments, and what it returned
VARIABLES call, returned

world_vars ==
    <<pos, money, properties, jail_turns_remain, is_bankrupt,
      community_jail_free_card, chance_jail_free_card, pending_offer,
      owner, is_mortgage, build_level,
      stack_pos, jail_card_out, stack_known, stack_rest, error>>

turn_locals ==
    <<players_in_game, out_of_turn_player_id, skip_turn_counter,
      out_of_turn_count>>

vars ==
    <<world_vars, current_player_id, turns_counter, pc, turn_locals, result,
      call, returned, hybrid_moves>>

\* the number of turns explored
MaxTurns == 2

\* the number of moves of the hybrid agent that are neither a skip nor a
\* conclusion (hybrid_moves counts them); past it the scores favour those
MaxHybridMoves == 1

NoResult == [winner |-> None, turns_num |-> 0]

NoCall == [f |-> "none"]

\* Player.__init__: player 1 plays with the HybridRLAgent
hybrid(p) == p = HybridId

current_player == players_in_game[current_player_id + 1]
out_of_turn_player == players_in_game[out_of_turn_player_id + 1]

\* the entries the scores can favour at this point of the run
scored_actions(game_phase) ==
    {a \in selected_actions(World, HybridId, game_phase) :
        \/ hybrid_moves < MaxHybridMoves
        \/ make_move(World, HybridId, a).move_code # 0}

count_move(r) ==
    hybrid_moves' = IF r.move_code = 0 THEN hybrid_moves + 1
                    ELSE hybrid_moves

\* the next position, or "crashed" when the step raised
goto(w, next) == pc' = IF ok(w) THEN next ELSE "crashed"

\* play_game: `while self.winner() == False` ends the loop
Return ==
    /\ pc = "loop"
    /\ winner(World)
    /\ pc' = "done"
    /\ result' = [winner |-> get_players_in_game(World)[1],
                  turns_num |-> turns_counter]
    /\ UNCHANGED <<world_vars, current_player_id, turns_counter, turn_locals,
                   hybrid_moves, call, returned>>

\* next_turn up to the pre-roll moves
BeginTurn ==
    /\ pc = "loop"
    /\ ~winner(World)
    /\ turns_counter < MaxTurns
    /\ turns_counter' = turns_counter + 1
    /\ LET in_game == get_players_in_game(World)
           p == in_game[current_player_id + 1]
       IN /\ players_in_game' = in_game
          /\ SetWorld([World EXCEPT !.jail_turns_remain[p] =
                          IF @ # 0 THEN @ - 1 ELSE @])
          /\ out_of_turn_player_id' =
                 (current_player_id + 1) % Len(in_game)
    /\ skip_turn_counter' = 0
    /\ out_of_turn_count' = 0
    /\ pc' = "pre_check"
    /\ UNCHANGED <<current_player_id, result, call, returned, hybrid_moves>>

\* make_pre_roll_moves: check_pending_offer
PreCheck ==
    /\ pc = "pre_check"
    /\ LET w == check_pending_offer(World, current_player)
       IN /\ SetWorld(w)
          /\ goto(w, IF hybrid(current_player) THEN "pre_move"
                     ELSE "pre_jail")
    /\ UNCHANGED <<current_player_id, turns_counter, turn_locals, result, call, returned, hybrid_moves>>

\* FixedPolicyAgent.make_pre_roll_moves: jail card or fine
PreJail ==
    /\ pc = "pre_jail"
    /\ SetWorld(jail_moves(World, current_player))
    /\ pc' = "pre_mortgage"
    /\ UNCHANGED <<current_player_id, turns_counter, turn_locals, result, call, returned, hybrid_moves>>

PreMortgages ==
    /\ pc = "pre_mortgage"
    /\ SetWorld(manage_mortgages(World, current_player))
    /\ pc' = "pre_build"
    /\ UNCHANGED <<current_player_id, turns_counter, turn_locals, result, call, returned, hybrid_moves>>

PreBuilds ==
    /\ pc = "pre_build"
    /\ SetWorld(make_builds(World, current_player))
    /\ pc' = "oot"
    /\ UNCHANGED <<current_player_id, turns_counter, turn_locals, result, call, returned, hybrid_moves>>

\* HybridRLAgent.make_pre_roll_moves: one make_move
PreMove ==
    /\ pc = "pre_move"
    /\ \E a \in scored_actions("pre_roll") :
          LET r == make_move(World, current_player, a)
          IN SetWorld(r.w) /\ goto(r.w, "oot") /\ count_move(r)
    /\ UNCHANGED <<current_player_id, turns_counter, turn_locals, result, call, returned>>

oot_continues ==
    /\ skip_turn_counter < Len(players_in_game)
    /\ out_of_turn_count < 5 * Len(players_in_game)

\* a faulty variant: a move that is no skip leaves the count as it is
count_skip_keeping(move_code, counter) ==
    IF move_code = 2 THEN counter + 1 ELSE counter

\* 2 is the code for skip turn; any other code resets the count
count_skip(move_code, counter) ==
    IF move_code = 2 THEN counter + 1 ELSE 0

\* one pass of the out-of-turn loop, up to check_pending_offer
OotCheck ==
    /\ pc = "oot"
    /\ oot_continues
    /\ out_of_turn_count' = out_of_turn_count + 1
    /\ LET w == check_pending_offer(World, out_of_turn_player)
       IN SetWorld(w) /\ goto(w, "oot_move")
    /\ UNCHANGED <<current_player_id, turns_counter, players_in_game,
                   out_of_turn_player_id, skip_turn_counter, result, call, returned, hybrid_moves>>

\* the rest of make_out_of_turn_moves and of the loop body
OotMove ==
    /\ pc = "oot_move"
    /\ \E r \in (IF hybrid(out_of_turn_player)
                 THEN {make_move(World, out_of_turn_player, a) :
                          a \in scored_actions("out_of_turn")}
                 ELSE {[w |-> make_offers(World, out_of_turn_player),
                        move_code |-> 2]}) :
          /\ SetWorld(r.w)
          /\ count_move(r)
          /\ goto(r.w, "oot")
          /\ skip_turn_counter' =
                 count_skip(r.move_code, skip_turn_counter)
    /\ out_of_turn_player_id' =
           (out_of_turn_player_id + 1) % Len(players_in_game)
    /\ UNCHANGED <<current_player_id, turns_counter, players_in_game,
                   out_of_turn_count, result, call, returned>>

\* a faulty variant: the roll is made whatever the jail counter
after_out_of_turn_rolling(w, p) == "roll"

\* `if not current_player.jail_turns_remain:` make_roll and the post-roll
\* moves, else straight to the end of the turn
after_out_of_turn(w, p) ==
    IF w.jail_turns_remain[p] = 0 THEN "roll" ELSE "end"

\* the loop ends; the post-roll phase is entered unless the player is jailed
OotExit ==
    /\ pc = "oot"
    /\ ~oot_continues
    /\ pc' = after_out_of_turn(World, current_player)
    /\ UNCHANGED <<world_vars, current_player_id, turns_counter,
                   turn_locals, result, call, returned, hybrid_moves>>

Roll ==
    /\ pc = "roll"
    /\ \E w \in make_roll(World, current_player) :
          /\ SetWorld(w)
          /\ goto(w, IF hybrid(current_player) THEN "post_buy"
                     ELSE "post_check")
    /\ UNCHANGED <<current_player_id, turns_counter, turn_locals, result, call, returned, hybrid_moves>>

\* FixedPolicyAgent.make_post_roll_moves: check_pending_offer
PostCheck ==
    /\ pc = "post_check"
    /\ LET w == check_pending_offer(World, current_player)
       IN SetWorld(w) /\ goto(w, "post_buy")
    /\ UNCHANGED <<current_player_id, turns_counter, turn_locals, result, call, returned, hybrid_moves>>

PostBuy ==
    /\ pc = "post_buy"
    /\ SetWorld(IF consider_property_buy(World, current_player)
                THEN buy_property(World, current_player, pos[current_player])
                ELSE World)
    /\ pc' = IF hybrid(current_player) THEN "post_move" ELSE "end"
    /\ UNCHANGED <<current_player_id, turns_counter, turn_locals, result, call, returned, hybrid_moves>>

\* HybridRLAgent.make_post_roll_moves: one make_move
PostMove ==
    /\ pc = "post_move"
    /\ \E a \in scored_actions("post_roll") :
          LET r == make_move(World, current_player, a)
          IN SetWorld(r.w) /\ goto(r.w, "end") /\ count_move(r)
    /\ UNCHANGED <<current_player_id, turns_counter, turn_locals, result, call, returned>>

\* `if current_player.money < 0:` ... `else:` the turn passes on
Advance ==
    /\ pc = "end"
    /\ ~(money[current_player] < 0)
    /\ current_player_id' = (current_player_id + 1) % Len(players_in_game)
    /\ pc' = "loop"
    /\ UNCHANGED <<world_vars, turns_counter, turn_locals, result, call, returned, hybrid_moves>>

\* agent.handle_negative_balance()
Recover ==
    /\ pc = "end"
    /\ money[current_player] < 0
    /\ SetWorld(handle_negative_balance(World, current_player))
    /\ pc' = "resolve"
    /\ UNCHANGED <<current_player_id, turns_counter, turn_locals, result, call, returned, hybrid_moves>>

\* handle_negative_balance() returned True: nothing else is done
Recovered ==
    /\ pc = "resolve"
    /\ money[current_player] >= 0
    /\ pc' = "loop"
    /\ UNCHANGED <<world_vars, current_player_id, turns_counter,
                   turn_locals, result, call, returned, hybrid_moves>>

\* a faulty variant: the index is advanced as after an ordinary turn
index_after_bankruptcy_advanced(cur, in_game) == (cur + 1) % Len(in_game)

\* the index is left alone: after the bankruptcy it already points to the
\* next player, unless the bankrupt player was the last of the list
index_after_bankruptcy(cur, in_game) ==
    IF cur = Len(in_game) - 1 THEN 0 ELSE cur

\* handle_negative_balance() returned False
Bankrupt ==
    /\ pc = "resolve"
    /\ ~(money[current_player] >= 0)
    /\ SetWorld(bankruptcy(World, current_player))
    /\ current_player_id' =
           index_after_bankruptcy(current_player_id, players_in_game)
    /\ pc' = "loop"
    /\ UNCHANGED <<turns_counter, turn_locals, result, call, returned, hybrid_moves>>

(***************************************************************************)
(* Initial states.  Fresh is the state GameRound.__init__ and play_game    *)
(* leave.  The others are positions of a game in progress, each built from *)
(* Fresh by the program's own operations (purchases, buildings, mortgages, *)
(* earlier card draws, earlier bankruptcies), taken between two turns.     *)
(***************************************************************************)
Fresh ==
    [pos |-> [p \in Players |-> 0],
     money |-> [p \in Players |-> D(StartMoney)],
     properties |-> [p \in Players |-> <<>>],
     jail_turns_remain |-> [p \in Players |-> 0],
     is_bankrupt |-> [p \in Players |-> FALSE],
     community_jail_free_card |-> [p \in Players |-> FALSE],
     chance_jail_free_card |-> [p \in Players |-> FALSE],
     pending_offer |-> [p \in Players |-> NoOffer],
     owner |-> [f \in Purchasables |-> None],
     is_mortgage |-> [f \in Purchasables |-> FALSE],
     build_level |-> [f \in RealEstates |-> 0],
     stack_pos |-> [t \in DeckTypes |-> 0],
     jail_card_out |-> [t \in DeckTypes |-> FALSE],
     stack_known |-> [t \in DeckTypes |-> TRUE],
     stack_rest |-> [t \in DeckTypes |-> Range(cards_of(t))],
     error |-> ""]

with_money(w, p, dollars) == [w EXCEPT !.money[p] = D(dollars)]
standing_at(w, p, f) == [w EXCEPT !.pos[p] = f]
with_level(w, f, lvl) == [w EXCEPT !.build_level[f] = lvl]
with_mortgage(w, f) == [w EXCEPT !.is_mortgage[f] = TRUE]

RECURSIVE after_bankruptcies(_, _)
after_bankruptcies(w, ps) ==
    IF ps = {} THEN w
    ELSE LET p == Min(ps)
         IN after_bankruptcies(bankruptcy(w, p), ps \ {p})

\* the stack of type t after k cards were drawn from it in literal order
deck_at(w, t, k) ==
    [w EXCEPT !.stack_pos[t] = k,
              !.stack_rest[t] = {cards_of(t)[i] : i \in (k + 1) .. Len(cards_of(t))}]

\* the index of player p among the players in the game
index_in_game(w, p) ==
    Cardinality({q \in Players : q < p /\ ~w.is_bankrupt[q]})

\* player 0 is short of cash and holds Baltic Avenue, player 2 holds
\* Mediterranean Avenue; player 0 is about to move from field 36
StaleOfferStart ==
    {LET w1 == add_property(add_property(Fresh, 0, 3), 2, 1)
         w2 == with_money(with_money(w1, 0, cash), 2, 1440)
     IN [w |-> standing_at(w2, 0, 36), cp |-> 0] : cash \in {20, 90}}

\* the hybrid player holds the brown group with one house on each
HybridBuilderStart ==
    LET w1 == add_property(add_property(Fresh, HybridId, 1), HybridId, 3)
        w2 == with_level(with_level(w1, 1, 1), 3, 2)
        w3 == with_money(w2, HybridId, 500)
    IN {[w |-> w3, cp |-> HybridId]}

\* player 3 holds the brown group with hotels and little cash, and stands
\* on field 36; the players of `out` went bankrupt earlier
HotelOwnerStart ==
    {LET w1 == add_property(add_property(Fresh, 3, 1), 3, 3)
         w2 == with_level(with_level(w1, 1, 5), 3, 5)
         w3 == standing_at(with_money(w2, 3, 30), 3, 36)
         w4 == after_bankruptcies(w3, out)
     IN [w |-> w4, cp |-> index_in_game(w4, 3)] : out \in {{}, {0, 1}}}

\* the chance stack stands before ChairmanElection, player 2 has 40
\* dollars; the players of `out` went bankrupt earlier
ChairmanStart ==
    {[w |-> after_bankruptcies(
                with_money(deck_at(Fresh, "chance", 13), 2, 40), out),
      cp |-> 0] : out \in {{}, {3}}}

\* player 2 holds the brown group, Baltic Avenue mortgaged, with 320 dollars
MortgagedBuilderStart ==
    LET w1 == add_property(add_property(Fresh, 2, 3), 2, 1)
        w2 == with_money(with_mortgage(w1, 3), 2, 320)
    IN {[w |-> w2, cp |-> 2]}

\* player 2 was sent to prison in its last turn and is to act, with cash
\* below or above what the rule-based agent wants before it pays the fine
JailedStart ==
    {[w |-> with_money(put_in_prison(Fresh, 2), 2, cash), cp |-> 2] :
        cash \in {200, StartMoney}}

\* the hybrid player holds Reading Railroad and offered it to player 3 for
\* 250 dollars in an earlier turn; player 3 has not yet looked at the offer
SecondOfferStart ==
    LET w1 == add_property(Fresh, HybridId, 5)
        offer == [player_from |-> HybridId, player_to |-> 3,
                  property_offered |-> 5, property_requested |-> None,
                  money_offered |-> 0, money_requested |-> cash_cats(3, 5)]
    IN {[w |-> place_offer(w1, 3, offer), cp |-> HybridId]}

\* the chance stack stands before its jail-free card, which nobody drew yet
JailFreeCardStart ==
    {[w |-> deck_at(Fresh, "chance", 7), cp |-> 0]}

\* the chance stack was reshuffled after a first pass in which its
\* jail-free card was drawn; thirteen cards were passed since, the jail-free
\* card and SpeedingFines are left in an order not yet seen
ReshuffledStart ==
    {[w |-> [Fresh EXCEPT
                !.stack_pos["chance"] = Len(chance_cards) - 2,
                !.stack_known["chance"] = FALSE,
                !.stack_rest["chance"] = {"GetOutOfJailFree", "SpeedingFines"},
                !.jail_card_out["chance"] = TRUE],
      cp |-> 0]}

\* the two players left of HotelOwnerStart late in a game in which eight
\* chance cards were drawn, the jail-free card the last of them
LateGameStart ==
    {[w |-> [deck_at(s.w, "chance", 8) EXCEPT !.jail_card_out["chance"] = TRUE],
      cp |-> s.cp] : s \in {x \in HotelOwnerStart : x.w.is_bankrupt[0]}}

\* player 2 holds both utilities and the chance stack stands before
\* AdvanceToNearestUtility
UtilityOwnerStart ==
    LET w1 == add_property(add_property(Fresh, 2, 12), 2, 28)
    IN {[w |-> deck_at(w1, "chance", 5), cp |-> 0]}

Scenarios ==
    {[w |-> Fresh, cp |-> 0]} \cup JailFreeCardStart \cup ReshuffledStart
    \cup LateGameStart
    \cup StaleOfferStart \cup HybridBuilderStart \cup HotelOwnerStart
    \cup ChairmanStart \cup MortgagedBuilderStart \cup JailedStart
    \cup SecondOfferStart \cup UtilityOwnerStart

Init ==
    \E s \in Scenarios :
        /\ pos = s.w.pos
        /\ money = s.w.money
        /\ properties = s.w.properties
        /\ jail_turns_remain = s.w.jail_turns_remain
        /\ is_bankrupt = s.w.is_bankrupt
        /\ community_jail_free_card = s.w.community_jail_free_card
        /\ chance_jail_free_card = s.w.chance_jail_free_card
        /\ pending_offer = s.w.pending_offer
        /\ owner = s.w.owner
        /\ is_mortgage = s.w.is_mortgage
        /\ build_level = s.w.build_level
        /\ stack_pos = s.w.stack_pos
        /\ jail_card_out = s.w.jail_card_out
        /\ stack_known = s.w.stack_known
        /\ stack_rest = s.w.stack_rest
        /\ error = s.w.error
        /\ current_player_id = s.cp
        /\ turns_counter = 0
        /\ pc = "loop"
        /\ players_in_game = get_players_in_game(s.w)
        /\ out_of_turn_player_id = 0
        /\ skip_turn_counter = 0
        /\ out_of_turn_count = 0
        /\ result = NoResult
        /\ call = NoCall
        /\ returned = NoCall
        /\ hybrid_moves = 0

\* GameRound(): a new Board and new Players.  stack_pos and jail_card_out
\* are attributes of the classes CommunityChest and ChanceField, and
\* cards_stack is built only `if not hasattr(self.__class__, 'cards_stack')`:
\* the stacks of the new game are those the last game left
new_game(w) ==
    [Fresh EXCEPT !.stack_pos = w.stack_pos,
                  !.jail_card_out = w.jail_card_out,
                  !.stack_known = w.stack_known,
                  !.stack_rest = w.stack_rest]

\* Trainer.train: play_game returned and the loop builds the GameRound of
\* the next episode.  The cards of the stacks keep the gamemaster of the
\* game that built them, so the play of the next game is not the run of one
\* GameRound, and it is not followed here
NextEpisode ==
    /\ pc = "done"
    /\ SetWorld(new_game(World))
    /\ turns_counter' = 0
    /\ pc' = "next_game"
    /\ UNCHANGED <<current_player_id, turn_locals, result, call, returned, hybrid_moves>>

Next ==
    \/ Return
    \/ BeginTurn
    \/ PreCheck
    \/ PreJail
    \/ PreMortgages
    \/ PreBuilds
    \/ PreMove
    \/ OotCheck
    \/ OotMove
    \/ OotExit
    \/ Roll
    \/ PostCheck
    \/ PostBuy
    \/ PostMove
    \/ Advance
    \/ Recover
    \/ Recovered
    \/ Bankrupt
    \/ NextEpisode

Spec == Init /\ [][Next]_vars

(***************************************************************************)
(* Single calls.  A second specification makes one call of one function    *)
(* of the program in a position of a game in progress: the hybrid player   *)
(* and player 2 hold some of Mediterranean Avenue, Baltic Avenue and       *)
(* Boardwalk, player 2 holds some of the stations, a brown group held by   *)
(* one player may be built on, and one unbuilt field may be mortgaged.     *)
(***************************************************************************)
Reverse(s) == [i \in 1 .. Len(s) |-> s[Len(s) + 1 - i]]

RECURSIVE with_properties(_, _, _)
with_properties(w, p, fs) ==
    IF fs = <<>> THEN w
    ELSE with_properties(add_property(w, p, Head(fs)), p, Tail(fs))

Holders == {None, HybridId, 2}

Streets == {1, 3, 39}

\* the levels of Mediterranean Avenue and Baltic Avenue in one hand: built
\* evenly, and the uneven levels the sale of houses can leave
BrownLevels ==
    {<<0, 0>>, <<1, 0>>, <<1, 1>>, <<2, 1>>, <<2, 0>>, <<4, 4>>, <<5, 4>>,
     <<5, 5>>}

\* the fields of player p in the order bought, lowest or highest id first
holding(held, p, lowest_first) ==
    LET fs == SetToSeq({f \in DOMAIN held : held[f] = p})
    IN IF lowest_first THEN fs ELSE Reverse(fs)

CallWorlds ==
    {with_level(with_level(w, 1, lv[1]), 3, lv[2]) :
        w \in UNION {
            {w1} \cup {with_mortgage(w1, f) :
                         f \in {g \in Purchasables : w1.owner[g] # None}} :
            w1 \in {with_properties(
                        with_properties(Fresh, HybridId,
                                        holding(held, HybridId, lowest_first)),
                        2, holding(held, 2, lowest_first)
                               \o SubSeq(SetToSeq(Trains), 1, k)) :
                       held \in [Streets -> Holders],
                       k \in 0 .. Cardinality(Trains),
                       lowest_first \in BOOLEAN}},
        lv \in BrownLevels}

\* a position the program can be in: houses stand only where one player
\* holds both brown fields, none of them mortgaged
CallWorld(w) ==
    \/ w.build_level[1] = 0 /\ w.build_level[3] = 0
    \/ /\ w.owner[1] # None /\ w.owner[1] = w.owner[3]
       /\ ~w.is_mortgage[1] /\ ~w.is_mortgage[3]

InitCalls ==
    \E w \in {x \in CallWorlds : CallWorld(x)} :
        /\ pos = w.pos
        /\ money = w.money
        /\ properties = w.properties
        /\ jail_turns_remain = w.jail_turns_remain
        /\ is_bankrupt = w.is_bankrupt
        /\ community_jail_free_card = w.community_jail_free_card
        /\ chance_jail_free_card = w.chance_jail_free_card
        /\ pending_offer = w.pending_offer
        /\ owner = w.owner
        /\ is_mortgage = w.is_mortgage
        /\ build_level = w.build_level
        /\ stack_pos = w.stack_pos
        /\ jail_card_out = w.jail_card_out
        /\ stack_known = w.stack_known
        /\ stack_rest = w.stack_rest
        /\ error = w.error
        /\ current_player_id = 0
        /\ turns_counter = 0
        /\ pc = "call"
        /\ players_in_game = get_players_in_game(w)
        /\ out_of_turn_player_id = 0
        /\ skip_turn_counter = 0
        /\ out_of_turn_count = 0
        /\ result = NoResult
        /\ call = NoCall
        /\ returned = NoCall
        /\ hybrid_moves = 0

\* everything but the call and what it returned
game_vars ==
    <<world_vars, current_player_id, turns_counter, turn_locals, result,
      hybrid_moves>>

\* the cash a player in debt has to raise, in units
Needs == {D(10), D(30), D(31), D(60), D(130), D(1000)}

\* identify_mortgages(player, money_needed)
CallIdentifyMortgages ==
    /\ pc = "call"
    /\ \E p \in {HybridId, 2}, money_needed \in Needs :
          /\ call' = [f |-> "identify_mortgages", player |-> p,
                      money_needed |-> money_needed]
          /\ returned' = identify_mortgages(World, p, money_needed)
    /\ pc' = "returned"
    /\ UNCHANGED game_vars

\* the cash an offer names, in units
OfferCash == {D(60), D(260), D(261), D(600), D(601)}

\* offers between the hybrid player and player 2 in the position: a street
\* of the sender offered for cash or for nothing, a street of the receiver
\* requested for cash or for nothing, or both with cash on one side or none
OffersIn(w) ==
    {o \in [player_from : {HybridId, 2}, player_to : {HybridId, 2},
            property_offered : Streets \cup {None},
            property_requested : Streets \cup {None},
            money_offered : OfferCash \cup {0},
            money_requested : OfferCash \cup {0}] :
        /\ o.player_from # o.player_to
        /\ o.property_offered # None \/ o.property_requested # None
        /\ o.property_offered # None =>
              w.owner[o.property_offered] = o.player_from
        /\ o.property_requested # None =>
              w.owner[o.property_requested] = o.player_to
        /\ o.money_offered = 0 \/ o.money_requested = 0
        /\ o.property_offered = None => o.money_requested = 0
        /\ o.property_requested = None => o.money_offered = 0}

\* the positions the offers are considered in: nothing built or mortgaged,
\* no station held
TradeWorld ==
    /\ \A f \in Purchasables : ~is_mortgage[f]
    /\ \A f \in RealEstates : build_level[f] = 0
    /\ \A f \in Trains : owner[f] = None

\* FixedPolicyAgent._get_offer_net_worth(offer)
CallGetOfferNetWorth ==
    /\ pc = "call"
    /\ TradeWorld
    /\ \E offer \in OffersIn(World) :
          /\ call' = [f |-> "_get_offer_net_worth", offer |-> offer]
          /\ returned' = get_offer_net_worth(offer)
    /\ pc' = "returned"
    /\ UNCHANGED game_vars

\* FixedPolicyAgent.consider_offer of the player the offer is pending on
CallConsiderOffer ==
    /\ pc = "call"
    /\ TradeWorld
    /\ \E offer \in OffersIn(World) :
          LET w == place_offer(World, offer.player_to, offer)
          IN /\ call' = [f |-> "consider_offer", offer |-> offer]
             /\ returned' = consider_offer(w, offer.player_to)
             /\ pending_offer' = w.pending_offer
    /\ pc' = "returned"
    /\ UNCHANGED <<pos, money, properties, jail_turns_remain, is_bankrupt,
                   community_jail_free_card, chance_jail_free_card, owner,
                   is_mortgage, build_level, stack_pos, jail_card_out,
                   stack_known, stack_rest, error, current_player_id,
                   turns_counter, turn_locals, result, hybrid_moves>>

\* the action groups whose masks are asked for
MaskedGroups ==
    {"sell_trade", "buy_trade", "improve_buildings", "sell_buildings"}

\* ActionsMasking.apply(action_type, qvalues) of the hybrid player: the
\* entries left finite
CallApply ==
    /\ pc = "call"
    /\ \E action_type \in MaskedGroups :
          /\ call' = [f |-> "apply", player |-> HybridId,
                      action_type |-> action_type]
          /\ returned' = apply(World, HybridId, action_type)
    /\ pc' = "returned"
    /\ UNCHANGED game_vars

\* the groups asked of the network (forward takes any list of groups): the
\* groups of the post-roll phase, the same after improve_buildings, and
\* the groups of the post-roll phase that have a mask
AskedGroups ==
    {phase_allowable_actions("post_roll"), SubSeq(actions, 4, 8),
     SubSeq(actions, 5, 7), SubSeq(actions, 6, 7)}

\* the entries whose scores can stand out
StandOutEntries ==
    {<<"mortgage", <<1>>>>, <<"mortgage", <<3>>>>,
     <<"free_mortgage", <<1>>>>, <<"sell_buildings", <<0, 1>>>>,
     <<"sell_buildings", <<0, 3>>>>, <<"improve_buildings", <<0, 1>>>>,
     <<"improve_buildings", <<1, 1>>>>, <<"skip_turn", <<0>>>>}

score_of(x, v) == [action_type |-> x[1], multidim_id |-> x[2], score |-> v]

\* no score, one score or two scores stand out, the two equal or not
StandOuts(types) ==
    LET entries == {x \in StandOutEntries : x[1] \in Range(types)}
    IN {{}} \cup {{score_of(x, 2)} : x \in entries}
       \cup UNION {{{score_of(x, v[1]), score_of(y, v[2])} :
                        y \in entries \ {x}, v \in {<<2, 2>>, <<1, 2>>}} :
                     x \in entries}

\* the positions a move is made in: Boardwalk and the stations unowned
MoveWorld ==
    /\ owner[39] = None
    /\ \A f \in Trains : owner[f] = None

\* HybridRLAgent.make_move(q_values), greedy or exploring
CallMakeMove ==
    /\ pc = "call"
    /\ MoveWorld
    /\ \E types \in AskedGroups, explore \in BOOLEAN :
        \E scores \in StandOuts(types) :
          LET q_values == [action_types |-> types, scores |-> scores]
          IN \E s \in selected(World, HybridId, q_values, explore) :
                LET a == [action_type |-> s.action_type,
                          multidim_id |-> s.multidim_id]
                    r == IF s.raised
                         THEN [w |-> raise(World, "ValueError"),
                               move_code |-> 0]
                         ELSE make_move(World, HybridId, a)
                IN /\ call' = [f |-> "make_move", player |-> HybridId,
                               q_values |-> q_values, explore |-> explore]
                   /\ returned' = [raised |-> ~ok(r.w),
                                   action_type |-> s.action_type,
                                   multidim_id |-> s.multidim_id,
                                   move_code |-> r.move_code]
                   /\ SetWorld(r.w)
    /\ pc' = "returned"
    /\ UNCHANGED <<current_player_id, turns_counter, turn_locals, result,
                   hybrid_moves>>

\* the positions a station is landed on in: no street owned
StationWorld == \A f \in RealEstates : owner[f] = None

\* a player is moved to a station and TrainStation.react(player) is called
CallReact ==
    /\ pc = "call"
    /\ StationWorld
    /\ \E p \in {0, HybridId, 2}, f \in Trains :
          /\ call' = [f |-> "react", player |-> p, field |-> f]
          /\ \E w \in move_and_react(World, p, f) : SetWorld(w)
    /\ returned' = NoCall
    /\ pc' = "returned"
    /\ UNCHANGED <<current_player_id, turns_counter, turn_locals, result,
                   hybrid_moves>>

NextCalls ==
    \/ CallIdentifyMortgages
    \/ CallGetOfferNetWorth
    \/ CallConsiderOffer
    \/ CallApply
    \/ CallMakeMove
    \/ CallReact

SpecCalls == InitCalls /\ [][NextCalls]_vars

(***************************************************************************)
(* Properties                                                              *)
(***************************************************************************)
InGame == {p \in Players : ~is_bankrupt[p]}

\* the players that go bankrupt in the step
GoingBankrupt == {p \in Players : is_bankrupt'[p] /\ ~is_bankrupt[p]}

\* C1: for every purchasable field f and every player p, f.owner equals
\* p.id if and only if f.id is in p.properties (I1), in every state the
\* purchases, executed offers and bankruptcies of a game lead to
C1_OwnershipConsistent ==
    \A f \in Purchasables : \A p \in Players :
        (owner[f] = p) <=> (f \in Range(properties[p]))

\* Baltic Avenue has passed from player 0 to player 2 by an executed offer
\* and player 1 has bought a field since
C1_Witness ==
    /\ owner[3] = 2
    /\ properties[2] = <<1, 3>>
    /\ properties[0] = <<>>
    /\ Len(properties[1]) = 1

\* player p is the one whose pending offer the step considers
Considering(p) ==
    \/ pc \in {"pre_check", "post_check"} /\ p = current_player
    \/ pc = "oot" /\ oot_continues /\ p = out_of_turn_player

\* both named transfers and both cash deltas of offer o are applied
OfferApplied(o) ==
    /\ o.property_requested # None =>
          /\ owner'[o.property_requested] = o.player_from
          /\ o.property_requested \in Range(properties'[o.player_from])
          /\ o.property_requested \notin Range(properties'[o.player_to])
    /\ o.property_offered # None =>
          /\ owner'[o.property_offered] = o.player_to
          /\ o.property_offered \in Range(properties'[o.player_to])
          /\ o.property_offered \notin Range(properties'[o.player_from])
    /\ money' = [money EXCEPT
                    ![o.player_from] = @ + o.money_requested - o.money_offered,
                    ![o.player_to] = @ - o.money_requested + o.money_offered]

OwnershipAndCashUnchanged ==
    /\ properties' = properties
    /\ owner' = owner
    /\ money' = money

\* C2: exec_offer is all-or-nothing: whenever a player considers a pending
\* offer (accepted offers are executed, one whose property the giver no
\* longer owns included), either both named transfers and both cash deltas
\* are applied, or the property sets, field owners and cash of all players
\* are left exactly as they were
C2_AllOrNothing ==
    [][\A p \in Players :
          (Considering(p) /\ has_offer(pending_offer[p])) =>
              \/ OfferApplied(pending_offer[p])
              \/ OwnershipAndCashUnchanged]_vars

\* the run stopped inside exec_offer: player 2 accepted the offer of Baltic
\* Avenue after player 0, who made it, went bankrupt
C2_Witness ==
    /\ pc = "crashed"
    /\ error = "ValueError"
    /\ is_bankrupt[0]
    /\ has_offer(pending_offer[2])
    /\ pending_offer[2].property_offered = 3
    /\ owner[3] # 0

\* the properties a pending offer names
Named(o) == {o.property_offered, o.property_requested} \ {None}

\* C3: a pending offer never references stale ownership: whenever a
\* property changes owner (in particular when its owner goes bankrupt and
\* it returns to the bank), every pending offer naming that property is
\* cleared in the same step
C3_OffersClearedOnOwnerChange ==
    [][\A f \in Purchasables :
          owner'[f] # owner[f] =>
              \A q \in Players :
                  has_offer(pending_offer'[q]) =>
                      f \notin Named(pending_offer'[q])]_vars

\* C4: after any build or sell-building operation, within every colour
\* group the maximum build level minus the minimum build level is at most 1
C4_EvenBuilding ==
    \A f \in RealEstates : \A g \in get_property_group_ids(f) :
        build_level[f] - build_level[g] <= 1

\* C5: no operation sets the mortgaged flag on a property whose build
\* level is greater than 0
C5_NoMortgageOnBuilt ==
    [][\A f \in RealEstates :
          (is_mortgage'[f] /\ ~is_mortgage[f]) => build_level'[f] = 0]_vars

\* C6: no operation raises the build level of a property whose mortgaged
\* flag is set
C6_NoBuildOnMortgaged ==
    [][\A f \in RealEstates :
          build_level'[f] > build_level[f] => ~is_mortgage[f]]_vars

\* C7: whenever next_turn returns, every non-bankrupt player has cash
\* greater than or equal to 0
C7_NoNegativeCashBetweenTurns ==
    pc = "loop" => \A p \in InGame : money[p] >= 0

\* C8: at the moment bankruptcy() is applied in next_turn, the player's
\* cash is negative, every property the player owns is mortgaged, and no
\* property the player owns has a build level above 0
C8_BankruptOnlyWhenLiquidated ==
    [][\A p \in GoingBankrupt :
          /\ money[p] < 0
          /\ \A f \in Range(properties[p]) :
                /\ is_mortgage[f]
                /\ f \in RealEstates => build_level[f] = 0]_vars

\* the distance from player b to player q in cyclic id order
CyclicDistance(b, q) == (q - b + NPlayers) % NPlayers

\* the first player of the set alive that follows b in cyclic id order
FirstAfter(b, alive) ==
    CHOOSE q \in alive :
        \A r \in alive : CyclicDistance(b, q) <= CyclicDistance(b, r)

\* C9: when the acting player goes bankrupt at the end of a turn, the
\* acting player of the next turn (the entry of the list of players in the
\* game that current_player_id selects) is the first non-bankrupt player
\* that follows them in cyclic id order
C9_NextAfterBankruptcy ==
    [][\A b \in GoingBankrupt :
          LET alive == {q \in Players : ~is_bankrupt'[q]}
          IN /\ pc' = "loop"
             /\ current_player_id' < Cardinality(alive)
             /\ SetToSeq(alive)[current_player_id' + 1] = FirstAfter(b, alive)]_vars

\* player 0 went bankrupt at the end of the first turn and the second turn
\* is player 1's
C9_Witness ==
    /\ is_bankrupt[0]
    /\ turns_counter = 2
    /\ pc = "pre_check"
    /\ current_player = 1
    /\ players_in_game = <<1, 2, 3>>

C10_AtTermination ==
    /\ InGame # {}
    /\ pc = "done" =>
          /\ Cardinality(InGame) = 1
          /\ result.winner \in InGame

C10_StopsAtOnce ==
    (pc = "loop" /\ Cardinality(InGame) = 1) =>
        (pc' = "done" /\ turns_counter' = turns_counter)

\* C10: play_game returns only in a state with exactly one non-bankrupt
\* player: the number of non-bankrupt players never drops to zero, the loop
\* stops at the first turn boundary at which it equals one, and the
\* reported winner is that player's id
C10_OneWinner == []C10_AtTermination /\ [][C10_StopsAtOnce]_vars

\* play_game returned after player 3 went bankrupt and left player 2 alone
C10_Witness ==
    /\ pc = "done"
    /\ result.winner = 2
    /\ turns_counter = 1
    /\ is_bankrupt[3]

\* the positions inside a turn, where players_in_game is the turn's list
InTurn == pc \notin {"loop", "done", "next_game"}

C11_BankruptState ==
    \A p \in Players :
        is_bankrupt[p] =>
            /\ properties[p] = <<>>
            /\ \A f \in Purchasables : owner[f] # p
            /\ money[p] = 0
            /\ InTurn => current_player # p
            /\ pc = "oot_move" => out_of_turn_player # p

\* within one game; the players of a next game are new objects
C11_StaysBankrupt ==
    pc' # "next_game" => \A p \in Players : is_bankrupt[p] => is_bankrupt'[p]

\* C11: bankruptcy is terminal: once a player is bankrupt, in every later
\* state that player is still bankrupt, is never again the acting player
\* or an out-of-turn player, owns no property and has cash 0
C11_BankruptcyTerminal == []C11_BankruptState /\ [][C11_StaysBankrupt]_vars

\* with player 3 bankrupt, player 0 has drawn ChairmanElection and
\* collected 50 dollars from players 1 and 2 only
C11_Witness ==
    /\ is_bankrupt[3]
    /\ stack_pos["chance"] = 14
    /\ pos[0] = 7
    /\ money[0] = D(StartMoney + 100)
    /\ money[3] = 0

\* C12: immediately after bankruptcy() on a player the bankrupt flag is
\* set, every field the player owned has owner None and mortgaged flag
\* false, the player's property list is empty, position is 0 and cash is 0;
\* fields owned by other players are unchanged
C12_BankruptcyEffect ==
    [][\A p \in GoingBankrupt :
          /\ is_bankrupt'[p]
          /\ properties'[p] = <<>>
          /\ pos'[p] = 0
          /\ money'[p] = 0
          /\ \A f \in Purchasables :
                IF f \in Range(properties[p])
                THEN owner'[f] = None /\ ~is_mortgage'[f]
                ELSE owner'[f] = owner[f] /\ is_mortgage'[f] = is_mortgage[f]
          /\ \A q \in Players \ {p} : properties'[q] = properties[q]]_vars

\* player 0 has just gone bankrupt; Baltic Avenue, mortgaged in the
\* attempt to recover, is back with the bank and unmortgaged, and
\* Mediterranean Avenue is still player 2's
C12_Witness ==
    /\ pc = "loop"
    /\ turns_counter = 1
    /\ is_bankrupt[0]
    /\ pending_offer[2].player_from = 0
    /\ owner[3] = None
    /\ ~is_mortgage[3]
    /\ owner[1] = 2

\* the phase a position of next_turn belongs to: 1 pre-roll, 2 out-of-turn,
\* 3 post-roll, 4 the end of the turn
Phase(at) ==
    CASE at \in {"pre_check", "pre_jail", "pre_mortgage", "pre_build",
                 "pre_move"} -> 1
      [] at \in {"oot", "oot_move"} -> 2
      [] at \in {"roll", "post_check", "post_buy", "post_move"} -> 3
      [] OTHER -> 4

C13_Order ==
    /\ (pc = "loop" /\ pc' # "done") => Phase(pc') = 1
    /\ (InTurn /\ pc' \notin {"loop", "crashed"}) =>
          /\ Phase(pc') >= Phase(pc)
          /\ Phase(pc') <= Phase(pc) + 1 \/ (Phase(pc) = 2 /\ Phase(pc') = 4)
    /\ (Phase(pc) = 2 /\ Phase(pc') = 3) =>
          jail_turns_remain[current_player] = 0
    /\ (Phase(pc) = 2 /\ Phase(pc') = 4 /\ pc' # "crashed") =>
          jail_turns_remain[current_player] # 0

\* a position changes only by the acting player's roll (or the reset of a
\* bankruptcy); a field leaves the bank only by the acting player's
\* post-roll purchase.  Within one game: the players of a next game are new
C13_MovesAndBuys ==
    pc' # "next_game" =>
        /\ \A p \in Players \ GoingBankrupt :
              pos'[p] # pos[p] => (pc = "roll" /\ p = current_player)
        /\ \A f \in Purchasables :
              (owner[f] = None /\ owner'[f] # None) =>
                  (pc = "post_buy" /\ owner'[f] = current_player)

\* C13: within every turn the phases run in the order pre-roll, then
\* out-of-turn, then post-roll, and the post-roll phase (dice roll,
\* position change, field reaction, purchase decision) happens only if the
\* acting player's jail counter is 0 after the pre-roll and out-of-turn
\* phases; a player still jailed neither moves nor buys in that turn
C13_PhaseOrder == [][C13_Order /\ C13_MovesAndBuys]_vars

\* player 2, jailed and short of cash, has reached the end of its turn
\* without a roll: still in prison, two jail turns left
C13_Witness ==
    /\ pc = "end"
    /\ turns_counter = 1
    /\ current_player = 2
    /\ jail_turns_remain[2] = 2
    /\ pos[2] = prison_id
    /\ money[2] = D(200)

\* C14: during the out-of-turn phase make_out_of_turn_moves is invoked
\* only on non-bankrupt players other than that turn's acting player
\* (pc = "oot_move" is inside the call on out_of_turn_player)
C14_OutOfTurnPlayers ==
    pc = "oot_move" =>
        /\ ~is_bankrupt[out_of_turn_player]
        /\ out_of_turn_player # current_player

C15_Bounded ==
    InTurn =>
        /\ out_of_turn_count <= 5 * Len(players_in_game)
        /\ skip_turn_counter <= Len(players_in_game)

\* a call is made (and counted) only below both limits, the phase is left
\* only at one of them, and the skip count follows the code returned: the
\* rule-based agent always skips, a move of the hybrid agent that changed
\* the game is no skip
C15_Loop ==
    /\ (pc = "oot" /\ pc' \in {"oot_move", "crashed"}) =>
          /\ skip_turn_counter < Len(players_in_game)
          /\ out_of_turn_count < 5 * Len(players_in_game)
          /\ out_of_turn_count' = out_of_turn_count + 1
          /\ skip_turn_counter' = skip_turn_counter
    /\ (pc = "oot" /\ pc' \in {"roll", "end"}) =>
          /\ \/ skip_turn_counter = Len(players_in_game)
             \/ out_of_turn_count = 5 * Len(players_in_game)
          /\ UNCHANGED <<out_of_turn_count, skip_turn_counter>>
    /\ (pc = "oot_move" /\ pc' = "oot") =>
          /\ out_of_turn_count' = out_of_turn_count
          /\ skip_turn_counter' \in {0, skip_turn_counter + 1}
          /\ ~hybrid(out_of_turn_player) =>
                skip_turn_counter' = skip_turn_counter + 1
          /\ (hybrid(out_of_turn_player) /\ World' # World) =>
                skip_turn_counter' = 0

\* C15: the out-of-turn phase of every turn terminates: it makes at most
\* 5 x (number of non-bankrupt players) agent calls, and it ends earlier
\* exactly when as many consecutive calls as there are non-bankrupt players
\* have returned the skip code; any non-skip move resets the count to 0
C15_OutOfTurnTerminates == []C15_Bounded /\ [][C15_Loop]_vars

\* the phase ended at the cap of 20 calls, the skip count below 4
C15_Witness ==
    /\ pc \in {"roll", "end"}
    /\ Len(players_in_game) = 4
    /\ out_of_turn_count = 20
    /\ skip_turn_counter < 4

TradeActions == {"exchange_trade_offer", "sell_trade", "buy_trade"}

\* the trade entries the masks leave to the hybrid agent that name player q
TradeAttempts(q, game_phase) ==
    {a \in selected_actions(World, HybridId, game_phase) :
        a.action_type \in TradeActions /\ a.multidim_id[1] = q}

\* a pending offer changes only by being cleared
C16_Kept ==
    \A q \in Players :
        has_offer(pending_offer[q]) =>
            pending_offer'[q] \in {pending_offer[q], NoOffer}

\* on a player who holds an offer, a trade action of the hybrid agent
\* changes nothing, and make_offers of any player leaves that offer and
\* everything but the other players' offers as it was
C16_AttemptIsNoOp ==
    \A q \in Players :
        has_offer(pending_offer[q]) =>
            /\ \A ph \in {"pre_roll", "out_of_turn", "post_roll"} :
                  \A a \in TradeAttempts(q, ph) :
                      make_move(World, HybridId, a).w = World
            /\ \A p \in Players \ {HybridId} :
                  LET w == make_offers(World, p)
                  IN /\ w.pending_offer[q] = pending_offer[q]
                     /\ [w EXCEPT !.pending_offer = pending_offer] = World

\* C16: a pending offer is never overwritten: an attempt of the rule-based
\* make_offers or of a trade action of the hybrid agent to place an offer
\* on a player who already holds one is a no-op that leaves the offer and
\* all board and player state unchanged
C16_OfferNeverOverwritten == []C16_AttemptIsNoOp /\ [][C16_Kept]_vars

\* the one move of the hybrid agent was a trade action on player 3, who
\* holds the earlier offer of 250 dollars for Reading Railroad: nothing else
\* the agent could have done leaves the railroad unmortgaged and the other
\* players without an offer
C16_Witness ==
    /\ pc = "oot"
    /\ hybrid(current_player)
    /\ out_of_turn_count = 0
    /\ hybrid_moves = 1
    /\ owner[5] = HybridId /\ ~is_mortgage[5]
    /\ has_offer(pending_offer[3])
    /\ pending_offer[3].money_requested = cash_cats(3, 5)
    /\ \A q \in Players \ {3} : ~has_offer(pending_offer[q])

\* the step executes the pending offer of player p to its end
Executes(p) ==
    /\ Considering(p)
    /\ has_offer(pending_offer[p])
    /\ consider_offer(World, p)
    /\ pc' # "crashed"

\* C17: after exec_offer completes, no player other than the two parties
\* still holds a pending offer whose property_offered or property_requested
\* is one of the properties just traded
C17_TradedOffersCleared ==
    [][\A p \in Players :
          Executes(p) =>
              \A q \in Players \ {pending_offer[p].player_from,
                                  pending_offer[p].player_to} :
                  has_offer(pending_offer'[q]) =>
                      Named(pending_offer'[q])
                          \cap Named(pending_offer[p]) = {}]_vars

\* player 2 bought Reading Railroad from the hybrid player in its first
\* out-of-turn call, and the earlier offer of the railroad to player 3, who
\* was not called since, is gone
C17_Witness ==
    /\ pc = "oot_move"
    /\ turns_counter = 1
    /\ out_of_turn_count = 1
    /\ out_of_turn_player = 2
    /\ owner[5] = 2
    /\ ~has_offer(pending_offer[3])


\* the jail-free flags of the players for the stack of type t
jail_free_card(t) ==
    IF t = "chance" THEN chance_jail_free_card ELSE community_jail_free_card

\* C18: when a deck's jail-free card is drawn while it is unclaimed, the
\* deck's claimed flag becomes true and the drawing player's jail-free flag
\* for that deck (chance or community chest) becomes true
C18_JailFreeCardGranted ==
    [][\A t \in DeckTypes :
          (/\ pc = "roll"
           /\ stack_known[t]
           /\ cards_of(t)[stack_pos[t] + 1] = "GetOutOfJailFree"
           /\ ~jail_card_out[t]
           /\ stack_pos'[t] = stack_pos[t] + 1) =>
              /\ jail_card_out'[t]
              /\ jail_free_card(t)'[current_player]]_vars


JailFree == "GetOutOfJailFree"

\* the step moves the cursor of the stack of type t
Draws(t) == pc = "roll" /\ pc' # "crashed" /\ stack_pos'[t] # stack_pos[t]

\* the stack was reshuffled within the step
Reshuffled(t) == stack_pos'[t] <= stack_pos[t]

\* the cards the cursor moved past: up to the end of the old order and from
\* the start of the new one if the stack was reshuffled
PassedBefore(t) ==
    IF Reshuffled(t) THEN stack_rest[t] ELSE stack_rest[t] \ stack_rest'[t]
PassedAfter(t) ==
    IF Reshuffled(t) THEN Range(cards_of(t)) \ stack_rest'[t] ELSE {}

\* the step is the move of the current player to a field of type t followed
\* by the call of card d alone, with the cursor one past d afterwards
EffectOf(t, d) ==
    \E roll \in DiceSums :
        LET p == current_player
            result_pos == pos[p] + roll
            w1 == IF result_pos >= NFields THEN add_money(World, p, 200)
                  ELSE World
            w2 == [w1 EXCEPT !.pos[p] = result_pos % NFields,
                             !.stack_pos[t] = stack_pos'[t] - 1,
                             !.stack_known[t] = stack_known'[t],
                             !.stack_rest[t] = stack_rest'[t] \cup {d}]
        IN /\ field_type[result_pos % NFields] = t
           /\ World' \in {advance(w3, t, d) : w3 \in card_call(w2, p, d)}

\* C19: when a deck's jail-free card is marked as held and the cursor points
\* at it, a draw skips exactly that one card: the effect applied is that of
\* the card immediately after it (after a reshuffle with cursor reset to 0
\* if the end of the deck was reached), the cursor ends one position past
\* the card actually drawn, and no other card is skipped
C19_SkipsOnlyJailFreeCard ==
    [][\A t \in DeckTypes :
          (Draws(t) /\ jail_card_out[t]) =>
              \E d \in (PassedBefore(t) \cup PassedAfter(t)) \ {JailFree} :
                  /\ PassedBefore(t) \cup PassedAfter(t) \subseteq {JailFree, d}
                  /\ IF Reshuffled(t)
                     THEN /\ PassedBefore(t) \subseteq {JailFree}
                          /\ stack_pos[t] + Cardinality(PassedBefore(t))
                                 = Len(cards_of(t))
                          /\ stack_pos'[t] = Cardinality(PassedAfter(t))
                     ELSE stack_pos'[t] =
                              stack_pos[t] + Cardinality(PassedBefore(t))
                  /\ EffectOf(t, d)]_vars

\* the held jail-free card was skipped and SpeedingFines, the card after it,
\* was drawn: the cursor stands at the end of the chance stack
C19_Witness ==
    /\ turns_counter = 1
    /\ pc \in {"post_check", "post_buy"}
    /\ jail_card_out["chance"]
    /\ stack_pos["chance"] = Len(chance_cards)
    /\ stack_rest["chance"] = {}
    /\ pos[0] = 7
    /\ money[0] = D(StartMoney - 15)

\* the held jail-free card is the last of the stack and the hybrid player
\* is about to roll from Go: a roll of 7 skips the card and reshuffles
C19_LastCardHeld ==
    /\ turns_counter = 2
    /\ pc = "roll"
    /\ hybrid(current_player)
    /\ pos[HybridId] = 0
    /\ jail_card_out["chance"]
    /\ stack_pos["chance"] = Len(chance_cards) - 1
    /\ stack_rest["chance"] = {JailFree}

\* C20: game instances own independent deck state: when a second GameRound
\* is created after a first one in the same process, its two decks start
\* with cursor 0 and the jail-free card unclaimed
C20_DecksStartFresh ==
    pc = "next_game" =>
        \A t \in DeckTypes : stack_pos[t] = 0 /\ ~jail_card_out[t]


\* the owned, unmortgaged, unbuilt properties of player p
MortgageCandidates(p) ==
    {f \in Range(properties[p]) :
        ~is_mortgage[f] /\ ~(f \in RealEstates /\ build_level[f] > 0)}

\* half the price, in units
RaisedCash(f) == D(price[f]) \div 2

RECURSIVE RaisedBy(_)
RaisedBy(S) ==
    IF S = {} THEN 0
    ELSE LET f == CHOOSE x \in S : TRUE
         IN RaisedCash(f) + RaisedBy(S \ {f})

\* C21: identify_mortgages(player, need) considers exactly the player's
\* owned, unmortgaged, unbuilt properties, orders them by ascending raised
\* cash (half the price), and returns the shortest prefix of that order
\* whose cumulative raised cash is greater than or equal to need, or all
\* candidates if their total is below need, together with the sum of raised
\* cash of the returned properties
C21_IdentifyMortgages ==
    (pc = "returned" /\ call.f = "identify_mortgages") =>
        LET need == call.money_needed
            ids == returned.ids
            chosen == Range(ids)
            candidates == MortgageCandidates(call.player)
        IN /\ chosen \subseteq candidates
           /\ Cardinality(chosen) = Len(ids)
           /\ \A i, j \in DOMAIN ids :
                 i < j => RaisedCash(ids[i]) <= RaisedCash(ids[j])
           /\ \A f \in chosen, g \in candidates \ chosen :
                 RaisedCash(f) <= RaisedCash(g)
           /\ returned.cash = RaisedBy(chosen)
           /\ IF RaisedBy(candidates) < need
              THEN chosen = candidates
              ELSE /\ returned.cash >= need
                   /\ returned.cash - RaisedCash(ids[Len(ids)]) < need

\* player 2, who bought Boardwalk first, is to raise 130 dollars: two
\* cheaper fields are returned and Boardwalk is left out
C21_Witness ==
    /\ pc = "returned"
    /\ call.f = "identify_mortgages"
    /\ call.player = 2
    /\ call.money_needed = D(130)
    /\ Len(properties[2]) > 2
    /\ properties[2][1] = 39
    /\ Len(returned.ids) = 2
    /\ 39 \in MortgageCandidates(2) \ Range(returned.ids)


\* the value of the property field x of an offer: an unset one counts as 0
ValueOf(x) == IF x = None THEN 0 ELSE D(price[x])

\* C22: the net worth computed for an offer equals (price of the property
\* offered + cash offered) minus (price of the property requested + cash
\* requested), where an unset property counts as 0 and cash offered / cash
\* requested are the offer's money_offered / money_requested fields
C22_NetWorth ==
    (pc = "returned" /\ call.f = "_get_offer_net_worth") =>
        returned = (ValueOf(call.offer.property_offered)
                        + call.offer.money_offered)
                   - (ValueOf(call.offer.property_requested)
                        + call.offer.money_requested)


\* what the receiver of offer o pays, in cash and in the value of the
\* property it gives up, less the value and the cash it gets
NetCost(o) ==
    (ValueOf(o.property_requested) + o.money_requested)
    - (ValueOf(o.property_offered) + o.money_offered)

\* offer o gives its receiver the last field of a colour group
CompletesMonopoly(o) ==
    /\ o.property_offered # None
    /\ has_color(o.property_offered)
    /\ get_property_group_ids(o.property_offered) \subseteq
           (Range(properties[o.player_to]) \ {o.property_requested})
               \cup {o.property_offered}

C25_BuyTradeMask ==
    (/\ pc = "returned"
     /\ call.f = "apply"
     /\ call.action_type = "buy_trade") =>
        \A e \in returned :
            /\ e[1] \in Players \ {call.player}
            /\ ~is_bankrupt[e[1]]
            /\ e[2] \in Range(properties[e[1]])
            /\ ~is_mortgage[e[2]]
            /\ e[2] \in RealEstates => build_level[e[2]] = 0
            /\ LET a == [action_type |-> "buy_trade", multidim_id |-> e]
                   o == make_move(World, call.player, a).w.pending_offer[e[1]]
               IN /\ o.player_from = call.player
                  /\ o.property_requested \in Range(properties[e[1]])

\* the levels of the colour group of f after the level of f changes by d
GroupLevelsAfter(f, d) ==
    {IF g = f THEN build_level[g] + d ELSE build_level[g] :
        g \in get_property_group_ids(f)}

\* C26: every entry the improve-buildings mask or the sell-buildings mask
\* leaves legal is an action on a real estate the player owns whose
\* execution keeps the build levels of its colour group within 1 of each
\* other: improve only at the group minimum with the whole group owned,
\* sell only at the group maximum
C26_MasksBuildEvenly ==
    (/\ pc = "returned"
     /\ call.f = "apply"
     /\ call.action_type \in {"improve_buildings", "sell_buildings"}) =>
        \A e \in returned :
            LET f == e[2]
                d == IF call.action_type = "improve_buildings" THEN 1 ELSE -1
                levels == GroupLevelsAfter(f, d)
            IN /\ f \in RealEstates
               /\ f \in Range(properties[call.player])
               /\ Max(levels) - Min(levels) <= 1
               /\ call.action_type = "improve_buildings" =>
                     get_property_group_ids(f)
                         \subseteq Range(properties[call.player])


\* the step is a call of make_move
MakeMoveStep == pc = "call" /\ call'.f = "make_move"

\* the entries the masks leave legal before the call, with their group
LegalBefore ==
    UNION {{<<g, e>> : e \in apply(World, call'.player, g)} :
              g \in Range(call'.q_values.action_types)}

\* the place of a group in the list of the groups asked for
PlaceOf(g) ==
    CHOOSE i \in 1 .. Len(call'.q_values.action_types) :
        call'.q_values.action_types[i] = g

\* C27: in the greedy and in the exploring branch of make_move the (group,
\* index) selected and executed is never one the mask marked illegal,
\* provided an entry of a requested group is legal; the greedy branch
\* picks the highest legal score, ties going to the first group and the
\* first index
C27_SelectsLegal ==
    [][(MakeMoveStep /\ LegalBefore # {}) =>
          LET sel == <<returned'.action_type, returned'.multidim_id>>
              score(x) == qval(call'.q_values, x[1], x[2])
          IN /\ returned'.action_type # "" => sel \in LegalBefore
             /\ ~call'.explore =>
                   /\ sel \in LegalBefore
                   /\ \A x \in LegalBefore :
                         \/ score(x) < score(sel)
                         \/ /\ score(x) = score(sel)
                            /\ \/ PlaceOf(x[1]) > PlaceOf(sel[1])
                               \/ /\ x[1] = sel[1]
                                  /\ flat_index(x[2]) >= flat_index(sel[2])]_vars

C29_BuyProperty ==
    [][(/\ pc = "post_buy"
        /\ <<money, properties, owner>>' # <<money, properties, owner>>) =>
          LET p == current_player
              f == pos[p]
          IN /\ f \in Purchasables
             /\ owner[f] = None
             /\ money'[p] = money[p] - D(price[f])
             /\ owner' = [owner EXCEPT ![f] = p]
             /\ properties'[p] = Append(properties[p], f)
             /\ \A q \in Players \ {p} :
                   money'[q] = money[q] /\ properties'[q] = properties[q]
             /\ UNCHANGED <<is_mortgage, build_level, pos>>]_vars

\* player 0 has bought Oriental Avenue (100) with the starting cash
C29_Witness ==
    /\ pc = "end"
    /\ current_player = 0
    /\ pos[0] = 6
    /\ owner[6] = 0
    /\ properties[0] = <<6>>
    /\ money[0] = D(StartMoney) - D(100)
    /\ \A q \in Players \ {0} : money[q] = D(StartMoney)


\* the fee table of the stations: 1 -> 25, 2 -> 50, 3 -> 100, 4 -> 200
StationFee(k) ==
    CASE k = 1 -> 25 [] k = 2 -> 50 [] k = 3 -> 100 [] k = 4 -> 200

StationsOf(o) == {t \in Trains : owner[t] = o}

NextActing == SetToSeq({q \in Players : ~is_bankrupt'[q]})[current_player_id' + 1]

\* C31: after every turn in which the acting player does not go bankrupt,
\* a turn that ended with a negative balance brought back to 0 or more by
\* the recovery included, and with at least two non-bankrupt players, the
\* acting player of the next turn is the next non-bankrupt player in
\* cyclic order, never the same player again
C31_TurnPassesOn ==
    [][(/\ pc \in {"end", "resolve"}
        /\ pc' = "loop"
        /\ ~is_bankrupt'[current_player]
        /\ Cardinality({q \in Players : ~is_bankrupt'[q]}) >= 2) =>
          /\ NextActing # current_player
          /\ NextActing =
                FirstAfter(current_player,
                           {q \in Players : ~is_bankrupt'[q]}
                               \ {current_player})]_vars


\* the step is one run of the negative-balance recovery
RecoveryStep == pc = "end" /\ pc' = "resolve"

\* the cash sell_house credits for the levels the step takes down
RECURSIVE HouseCredit(_)
HouseCredit(S) ==
    IF S = {} THEN 0
    ELSE LET f == CHOOSE g \in S : TRUE
         IN (build_level[f] - build_level'[f]) * (D(house_cost[f]) \div 2)
            + HouseCredit(S \ {f})

\* C32: in one run of the negative-balance recovery, the re-run of the
\* mortgage selection after the building sales included, no property is
\* mortgaged more than once and only unmortgaged properties are mortgaged,
\* so the cash credited by mortgaging equals the sum of half the price
\* over the properties that became mortgaged
C32_MortgagedOnce ==
    [][RecoveryStep =>
          LET p == current_player
              became == {f \in Purchasables :
                           is_mortgage'[f] /\ ~is_mortgage[f]}
          IN money'[p] - money[p] - HouseCredit(RealEstates)
                = RaisedBy(became)]_vars


\* half the construction cost of build level lvl of f, in units
HalfCost(f, lvl) ==
    IF lvl = 5 THEN D(hotel_cost[f]) \div 2 ELSE D(house_cost[f]) \div 2

\* the value of the levels of f the step sells
RECURSIVE LevelsValue(_, _, _)
LevelsValue(f, from, to) ==
    IF from <= to THEN 0
    ELSE HalfCost(f, from) + LevelsValue(f, from - 1, to)

RECURSIVE SoldValue(_)
SoldValue(S) ==
    IF S = {} THEN 0
    ELSE LET f == CHOOSE g \in S : TRUE
         IN LevelsValue(f, build_level[f], build_level'[f])
            + SoldValue(S \ {f})

\* C33: every building sale credits the owner half the construction cost
\* of the level sold: a hotel level (5 to 4), in the negative-balance
\* recovery or by the hybrid agent's sell_buildings action, lowers the
\* level by one and credits half the hotel cost, a house level half the
\* house cost; so the cash credited in the recovery is the total
\* identify_sales_to_bank returned
C33_SaleCredits ==
    [][(/\ pc' # "next_game"
        /\ is_mortgage' = is_mortgage
        /\ properties' = properties
        /\ \E f \in RealEstates : build_level'[f] < build_level[f]) =>
          /\ error' = ""
          /\ \A p \in Players :
                money'[p] - money[p] =
                    SoldValue({f \in RealEstates : owner[f] = p})]_vars


\* the buy-back cost of the properties of S, in units
RECURSIVE BuyBackCost(_)
BuyBackCost(S) ==
    IF S = {} THEN 0
    ELSE LET f == CHOOSE g \in S : TRUE
         IN D(free_mortgage_cost(f)) + BuyBackCost(S \ {f})

\* C34: the rule-based pre-roll mortgage management buys back only
\* mortgaged properties: manage_mortgages deducts cash only for owned
\* properties whose mortgaged flag is set, and a player with no mortgaged
\* property has unchanged cash after it
C34_BuysBackOnlyMortgaged ==
    [][pc = "pre_mortgage" =>
          LET p == current_player
              bought_back == {f \in Range(properties[p]) :
                                is_mortgage[f] /\ ~is_mortgage'[f]}
          IN /\ money[p] - money'[p] = BuyBackCost(bought_back)
             /\ (\A f \in Range(properties[p]) : ~is_mortgage[f]) =>
                   money'[p] = money[p]]_vars


\* the construction cost of build level lvl of f, in units
LevelCost(f, lvl) ==
    IF lvl = 5 THEN D(hotel_cost[f]) ELSE D(house_cost[f])

RECURSIVE LevelsCost(_, _, _)
LevelsCost(f, from, to) ==
    IF to <= from THEN 0
    ELSE LevelCost(f, to) + LevelsCost(f, from, to - 1)

RECURSIVE BuiltCost(_)
BuiltCost(S) ==
    IF S = {} THEN 0
    ELSE LET f == CHOOSE g \in S : TRUE
         IN LevelsCost(f, build_level[f], build_level'[f])
            + BuiltCost(S \ {f})

\* C35: every increase of a property's build level is paid for: in the
\* same step the owner's cash decreases by the house cost (levels 1 to 4)
\* or the hotel cost (level 5), in the rule-based make_builds and in the
\* hybrid agent's improve_buildings action
C35_BuildingsPaidFor ==
    [][(/\ pc' # "next_game"
        /\ properties' = properties
        /\ is_mortgage' = is_mortgage
        /\ \E f \in RealEstates : build_level'[f] > build_level[f]) =>
          \A p \in Players :
              money[p] - money'[p] =
                  BuiltCost({f \in RealEstates :
                               owner[f] = p /\ build_level'[f] > build_level[f]})]_vars


\* C36: in every reachable state a property with a build level above 0
\* has an owner who owns every property of its colour group; a bank-owned
\* property (owner None, released by a bankruptcy) has build level 0
C36_BuiltMeansMonopoly ==
    \A f \in RealEstates :
        build_level[f] > 0 =>
            /\ owner[f] # None
            /\ get_property_group_ids(f) \subseteq Range(properties[owner[f]])


\* the players that hold the jail-free flag of the stack of type t
HoldersOf(t) == {p \in Players : jail_free_card(t)[p]}

\* the deck's jail-free card is marked as held (jail_card_out) if and only
\* if some player holds the deck's flag, and at most one player holds it
HeldByOne(t) ==
    /\ jail_card_out[t] <=> HoldersOf(t) # {}
    /\ Cardinality(HoldersOf(t)) <= 1

\* C37: each deck's jail-free card is marked as held if and only if some
\* player holds that deck's jail-free flag, and at most one player holds
\* each deck's flag: true of a new game, and kept by every step of a game
\* (a draw, a use of the card, a bankruptcy)
C37_JailCardHeldByOne ==
    [][\A t \in DeckTypes :
          (pc' # "next_game" /\ HeldByOne(t)) => HeldByOne(t)']_vars


\* the hybrid agent is about to make a move of this phase
HybridAsked(game_phase) ==
    \/ game_phase = "pre_roll" /\ pc = "pre_move" /\ hybrid(current_player)
    \/ game_phase = "out_of_turn" /\ pc = "oot_move"
          /\ hybrid(out_of_turn_player)

\* the exchange offer of player p for the entry m: both properties and the
\* difference of their prices as the cash term
ExchangeOfferOf(p, m) ==
    LET net_val == D(price[m[3]]) - D(price[m[2]])
    IN [player_from |-> p, player_to |-> m[1],
        property_requested |-> m[3], property_offered |-> m[2],
        money_offered |-> IF net_val > 0 THEN net_val ELSE 0,
        money_requested |-> IF net_val < 0 THEN 0 - net_val ELSE 0]

\* the exchange_trade entries the masks leave legal on a target player who
\* holds no pending offer
FreeExchanges(game_phase) ==
    {a \in selected_actions(World, HybridId, game_phase) :
        /\ a.action_type = "exchange_trade"
        /\ ~has_offer(pending_offer[a.multidim_id[1]])}

\* C38: when the hybrid agent's selected action is a legal exchange_trade
\* entry and the target holds no pending offer, the target's pending offer
\* becomes the exchange offer naming both properties with the price
\* difference as the cash term, and the move is no skip (move code 2)
C38_ExchangeOfferPlaced ==
    \A ph \in {"pre_roll", "out_of_turn"} :
        HybridAsked(ph) =>
            \A a \in FreeExchanges(ph) :
                LET r == make_move(World, HybridId, a)
                IN /\ r.move_code # 2
                   /\ r.w.pending_offer[a.multidim_id[1]] =
                          ExchangeOfferOf(HybridId, a.multidim_id)


\* consider_offer has returned for an offer with both properties set
ExchangeConsidered ==
    /\ pc = "returned"
    /\ call.f = "consider_offer"
    /\ call.offer.property_offered # None
    /\ call.offer.property_requested # None

\* C39: consider_offer never accepts an exchange offer: for every offer with
\* both property_offered and property_requested set, whatever its cash
\* terms and monopoly effect, it returns False, so check_pending_offer does
\* not execute the offer and only clears it
C39_ExchangeNeverAccepted ==
    ExchangeConsidered =>
        LET q == call.offer.player_to
        IN /\ pending_offer[q] = call.offer
           /\ returned = FALSE
           /\ check_pending_offer(World, q) =
                  [World EXCEPT !.pending_offer[q] = NoOffer]

\* an exchange offer was refused that completes a colour group of the
\* player it is pending on and whose net worth is above -200 dollars
C39_Witness ==
    /\ ExchangeConsidered
    /\ returned = FALSE
    /\ LET q == call.offer.player_to
       IN /\ monopoly_gain(World, call.offer.property_offered,
                 SelectSeq(properties[q],
                           LAMBDA f : f # call.offer.property_requested))
          /\ get_offer_net_worth(call.offer) > 0 - D(200)


\* the step of the roll ends with the current player on a utility that
\* another player owns: by the roll itself or by the card that advances to
\* the nearest utility
UtilityLanding ==
    /\ pc = "roll"
    /\ pos'[current_player] \in Utilities
    /\ owner[pos'[current_player]] \notin {None, current_player}

\* dice sum times 4, or times 10 when both utilities have one owner, in units
UtilityFees ==
    {D(roll_sum * (IF owner[Min(Utilities)] = owner[Max(Utilities)]
                   THEN 10 ELSE 4)) : roll_sum \in DiceSums}

\* C40: whenever a non-owner is charged for landing on an owned utility, by
\* a normal roll or by the advance-to-nearest-utility card with its forced
\* roll, the amount moved from the lander to the owner is the sum of two
\* dice (2..12) times 4, or times 10 when both utilities have the same
\* owner, so it lies in 8..120 dollars (the lander may also have collected
\* 200 dollars for passing Go on a roll)
C40_UtilityFee ==
    [][UtilityLanding =>
          LET p == current_player
              o == owner[pos'[p]]
              fee == money'[o] - money[o]
          IN /\ fee \in UtilityFees
             /\ D(8) <= fee /\ fee <= D(120)
             /\ money[p] - money'[p] \in {fee, fee - D(200)}]_vars

=============================================================================
